---- MODULE Spec2Model ----
(***************************************************************************)
(* RestPumpDetector (src/bot_rest.py): the poll loop (run / scan_market),   *)
(* the snapshot store, detect_pump, the notification debounce and the       *)
(* per-symbol monitoring tasks (_analyze_with_notification).                *)
(*                                                                          *)
(* Time is in milliseconds (the unit of the snapshot timestamps).  Prices   *)
(* are integers; every percentage test of the source is done by cross       *)
(* multiplication, so no rounding is introduced.  Scores are in tenths      *)
(* (60 = 6.0).  Entries of emitted signals are in hundredths of a price     *)
(* unit (11100 = 111).  Synchronous code between two awaits is one step.    *)
(***************************************************************************)
EXTENDS Integers, Sequences, FiniteSets, TLC

\* ---------------------------------------------------------------- bounds
MaxScans == 4
MaxTasks == 2

\* ------------------------------------------------------- model input sets
Symbols == {"BTC"}
SymOrder == <<"BTC">>
Prices == {0, 100, 110, 116, 121}
Volumes == {10}
TimePoints == {0, 30000, 60000, 360000, 960000}
InstantScores == {59, 60}
SlowScores == {24, 25}
Resistances == {0, 1}

\* ------------------------------------------------------ program constants
FastPumpPct == 10
FastPumpTimeframe == 5
ElitePumpPct == 20
ElitePumpTimeframe == 20
RetentionMs == 2400000
StaleMinutes == 3
RepeatPumpThreshold == 10
CooldownMinutes == 0
PeakLookback == 50
MaxDurationMs == 900000
MinuteMs == 60000
InstantMinScore == 60
MinScoreForSignal == 25
NoSignalCooldownMin == 30

None == -1
\* a symbol without a row in coin_intelligence / without a cache entry
NoProfile == <<>>
\* ml_predictor.py, __init__, lines 47-63: the predictor before any training
NoModel ==
  [is_trained |-> FALSE, training_samples |-> 0, feature_weights |-> <<>>,
   feature_thresholds |-> <<>>]
\* no data/ml_model.pkl on the disk
NoFile == <<>>
\* update_signal_outcome has not been called
NoCall == <<>>

VARIABLES
  now,                 \* wall clock, ms
  scan_pc,             \* position of run()/scan_market
  scan_count,
  tickers,             \* the batch returned by get_ticker_batch
  todo,                \* symbols of the batch not yet handled by the for loop
  local,               \* scan_market's locals across the await of send_pump_alert
  price_snapshots,
  pump_cooldown,
  last_notified_peak,
  last_notified_type,
  active_analyses,
  signal_cooldown,
  no_signal_cooldown,
  tasks,               \* live _analyze_with_notification tasks, oldest first
  next_id,             \* number of tasks created so far
  alerts,              \* pump alerts handed to the broadcaster
  signals,             \* signals handed to the broadcaster
  nosignals,           \* "entry not found" notifications handed to the broadcaster
  ended                \* (symbol, exit path) of the tasks that have ended

\* the learning subsystem and the trackers of emitted signals
VARIABLES
  signal_memory,       \* rows of the signal_memory table of god_brain.db
  coin_intelligence,   \* rows of the coin_intelligence table
  coin_memory,         \* GodBrain.coin_memory, the cache of the profiles
  signal_count,        \* the calls of send_instant_short_signal, line 650
  instant_levels,      \* what send_instant_short_signal computed, per signal
  ml_predictor,        \* the MLPredictor: is_trained, training_samples, weights
  model_file,          \* data/ml_model.pkl
  clock_hour,          \* datetime.now().hour
  predictions,         \* the calls of MLPredictor.predict and their results
  active_signals,      \* SignalTracker.active_signals, oldest first
  signal_results,      \* SignalTracker.signal_results
  active_trails,       \* TrailingTPTracker.active_trails, oldest first
  last_outcome,        \* the latest call of update_signal_outcome
  trail_results        \* what TrailingTPTracker._save_result was given

\* the state of scan_market and of its monitoring tasks
pvars == <<now, scan_pc, scan_count, tickers, todo, local, price_snapshots,
           pump_cooldown, last_notified_peak, last_notified_type,
           active_analyses, signal_cooldown, no_signal_cooldown, tasks,
           next_id, alerts, signals, nosignals, ended>>

lvars == <<signal_memory, coin_intelligence, coin_memory, signal_count,
           instant_levels,
           ml_predictor, model_file, clock_hour, predictions, active_signals, signal_results,
           active_trails, last_outcome,
                 trail_results>>

vars == <<pvars, lvars>>

\* ---------------------------------------------------------------- helpers
Abs(x) == IF x < 0 THEN -x ELSE x
Max2(a, b) == IF a >= b THEN a ELSE b
Last(s) == s[Len(s)]
LastN(s, n) == IF Len(s) <= n THEN s ELSE SubSeq(s, Len(s) - n + 1, Len(s))
RemoveAt(s, i) == SubSeq(s, 1, i - 1) \o SubSeq(s, i + 1, Len(s))

\* Python's min(list, key=price) / max(list, key=price): the first extremum
MinSnap(s) ==
  s[CHOOSE i \in 1..Len(s) :
      /\ \A j \in 1..Len(s) : s[i].p <= s[j].p
      /\ \A j \in 1..(i - 1) : s[j].p > s[i].p]
MaxSnap(s) ==
  s[CHOOSE i \in 1..Len(s) :
      /\ \A j \in 1..Len(s) : s[i].p >= s[j].p
      /\ \A j \in 1..(i - 1) : s[j].p < s[i].p]


\* ------------------------------------------------------- snapshot store
Snap(t, p, v) == [t |-> t, p |-> p, v |-> v]

\* price_change_pct >= k/10 percent, for last_price > 0
ChangeAtLeast(price, last_price, k) == Abs(price - last_price) * 1000 >= k * last_price

\* the division of line 372 raises ZeroDivisionError
InsertRaises(s, price) ==
  /\ Len(s) >= 2
  /\ s[Len(s) - 1].p > 0
  /\ Last(s).p = 0

\* the head is left as it was
KeepHead(s, new) == s

\* the snapshot before the head is replaced
OverwriteBeforeHead(s, new) == [s EXCEPT ![Len(s) - 1] = new]

\* line 395: the drifting head takes the new snapshot
OverwriteHead(s, new) == [s EXCEPT ![Len(s)] = new]

\* lines 358-395: append, leave alone, or overwrite the head
InsertSnapshot(s, ts, price, volume) ==
  LET new == Snap(ts, price, volume) IN
  IF Len(s) = 0 THEN <<new>>
  ELSE IF Len(s) = 1
    THEN IF ts - s[1].t > 1000 THEN Append(s, new) ELSE s
  ELSE
    LET last_price == Last(s).p
        prev_price == s[Len(s) - 1].p
        time_since_last == ts - s[Len(s) - 1].t
        fast == prev_price > 0 /\ ChangeAtLeast(price, last_price, 5)
        medium == prev_price > 0 /\ ChangeAtLeast(price, last_price, 2)
    IN  IF fast THEN Append(s, new)
        ELSE IF medium /\ time_since_last > 2000 THEN Append(s, new)
        ELSE IF time_since_last > 5000 THEN Append(s, new)
        ELSE OverwriteHead(s, new)

\* the filtered list is not stored
PruneNothing(s, ts) == s

\* lines 397-402
Prune(s, ts) == SelectSeq(s, LAMBDA x : x.t > ts - RetentionMs)

\* ------------------------------------------------------- detect_pump
Recent(s, t, minutes) == SelectSeq(s, LAMBDA x : x.t >= t - minutes * MinuteMs)

NoPump == [pump |-> FALSE, num |-> 0, den |-> 1, time |-> 0, type |-> ""]

\* (max_snap.t - min_snap.t) in ms, 0.1 min when not positive
PumpTime(mn, mx) == IF mx.t - mn.t <= 0 THEN 6000 ELSE mx.t - mn.t

\* an increase that must exceed fast_pump_pct, not reach it
FastQualifiesStrict(s, t) ==
  LET r == Recent(s, t, FastPumpTimeframe) IN
  /\ Len(r) >= 2
  /\ MinSnap(r).p > 0
  /\ (MaxSnap(r).p - MinSnap(r).p) * 100 > FastPumpPct * MinSnap(r).p
  /\ PumpTime(MinSnap(r), MaxSnap(r)) <= FastPumpTimeframe * MinuteMs

\* lines 263-285
FastQualifies(s, t) ==
  LET r == Recent(s, t, FastPumpTimeframe) IN
  /\ Len(r) >= 2
  /\ MinSnap(r).p > 0
  /\ (MaxSnap(r).p - MinSnap(r).p) * 100 >= FastPumpPct * MinSnap(r).p
  /\ PumpTime(MinSnap(r), MaxSnap(r)) <= FastPumpTimeframe * MinuteMs

EliteQualifies(s, t) ==
  LET r == Recent(s, t, ElitePumpTimeframe) IN
  /\ Len(r) >= 2
  /\ MinSnap(r).p > 0
  /\ (MaxSnap(r).p - MinSnap(r).p) * 100 >= ElitePumpPct * MinSnap(r).p

\* a peak is stale by its age alone
IsStaleByAge(r, current_price, t) ==
  t - MaxSnap(r).t > StaleMinutes * MinuteMs

\* lines 313-327: the peak is old and the price has not started to fall
IsStale(r, current_price, t) ==
  LET peak_snap == MaxSnap(r) IN
  /\ t - peak_snap.t > StaleMinutes * MinuteMs
  /\ (peak_snap.p - current_price) * 1000 < 15 * peak_snap.p

\* the 20-minute window decides first
CandidateTypeEliteFirst(s, t) ==
  IF EliteQualifies(s, t) THEN "ELITE"
  ELSE IF FastQualifies(s, t) THEN "FAST" ELSE ""

\* lines 281-283 and 306-308: pump_type before the stale filter, FAST first
CandidateType(s, t) ==
  IF FastQualifies(s, t) THEN "FAST"
  ELSE IF EliteQualifies(s, t) THEN "ELITE" ELSE ""

\* line 316 and lines 460-465: the window of a kind
WindowOf(s, t, type) ==
  Recent(s, t, IF type = "ELITE" THEN ElitePumpTimeframe ELSE FastPumpTimeframe)

\* the increase is kept as the fraction num/den (in percent: 100*num/den)
DetectPump(s, t) ==
  IF Len(s) < 2 THEN NoPump
  ELSE
    LET current_price == Last(s).p
        type == CandidateType(s, t)
        r == WindowOf(s, t, type)
    IN  IF type = "" THEN NoPump
        ELSE IF IsStale(r, current_price, t) THEN NoPump
        ELSE [pump |-> TRUE,
              num |-> MaxSnap(r).p - MinSnap(r).p,
              den |-> MinSnap(r).p,
              time |-> PumpTime(MinSnap(r), MaxSnap(r)),
              type |-> type]

\* ------------------------------------------------- notification debounce
TierValue(type) == IF type = "FAST" THEN 2 ELSE IF type = "ELITE" THEN 1 ELSE 0

\* line 409: max price of the last 50 snapshots
CurrentPeak(s) == MaxSnap(LastN(s, PeakLookback)).p

\* a repeat threshold that must be exceeded, not reached
RepeatAllowedStrict(sym, type, current_peak) ==
  IF last_notified_peak[sym] # None
  THEN \/ TierValue(type) > TierValue(last_notified_type[sym])
       \/ (current_peak - last_notified_peak[sym]) * 100
            > RepeatPumpThreshold * last_notified_peak[sym]
  ELSE TRUE

\* lines 422-437
RepeatAllowed(sym, type, current_peak) ==
  IF last_notified_peak[sym] # None
  THEN \/ TierValue(type) > TierValue(last_notified_type[sym])
       \/ (current_peak - last_notified_peak[sym]) * 100
            >= RepeatPumpThreshold * last_notified_peak[sym]
  ELSE TRUE

\* lines 441-444
CooldownBlocks(sym, t) ==
  /\ pump_cooldown[sym] # None
  /\ t - pump_cooldown[sym] < CooldownMinutes * MinuteMs

ShouldNotify(sym, type, current_peak, t) ==
  RepeatAllowed(sym, type, current_peak) /\ ~CooldownBlocks(sym, t)

\* lines 457-482
PumpData(sym, s, det, price, t) ==
  LET recent == Recent(s, t, IF det.type = "FAST" THEN FastPumpTimeframe
                             ELSE ElitePumpTimeframe)
  IN  [symbol |-> sym,
       price_start |-> recent[1].p,
       price_peak |-> MaxSnap(recent).p,
       current_price |-> price,
       num |-> det.num,
       den |-> det.den,
       time |-> det.time,
       pump_type |-> det.type]

NoLocal == [symbol |-> "", pump_data |-> <<>>, current_peak |-> 0]
NoTickers == [ts |-> None, px |-> <<>>, vol |-> 0]

\* ------------------------------------------------- monitoring tasks
ConfirmationTimeout(type) == IF type = "FAST" THEN 60000 ELSE 120000
\* the thresholds of the two kinds exchanged
ReversalThresholdSwapped(type) == IF type = "FAST" THEN 10 ELSE 5

\* reversal threshold in tenths of a percent
ReversalThreshold(type) == IF type = "FAST" THEN 5 ELSE 10
CheckInterval(type) == IF type = "FAST" THEN 500 ELSE 1000
MonitorInterval(elapsed) == IF elapsed < 120000 THEN 2000 ELSE 5000

NewTask(id, pd) ==
  [id |-> id, sym |-> pd.symbol, type |-> pd.pump_type,
   start |-> pd.price_start, peak |-> pd.price_peak,
   num |-> pd.num, den |-> pd.den,
   pc |-> "new", t0 |-> None, wake |-> None, interval |-> None,
   cur |-> pd.current_price, replaced |-> FALSE,
   at_peak |-> None, at_lnp |-> None]

TasksOf(sym) == {i \in 1..Len(tasks) : tasks[i].sym = sym}

\* lines 487-497: the decision to start a monitoring task
NewHigherHigh(sym, current_peak, lnp) ==
  /\ lnp[sym] # None
  /\ current_peak * 100 > lnp[sym] * 105

StartsAnalysis(sym, current_peak, lnp) ==
  sym \notin active_analyses \/ NewHigherHigh(sym, current_peak, lnp)

\* the tasks after create_task; when the start is a higher-high restart (the
\* flag is set) the tasks already running for the symbol are marked as
\* replaced (a history mark, the code keeps no handle on them); at_peak and
\* at_lnp, history marks too, are the current_peak and the last notified peak
\* that the decision compared
Spawned(pd) ==
  Append([i \in 1..Len(tasks) |->
            IF tasks[i].sym = pd.symbol /\ pd.symbol \in active_analyses
            THEN [tasks[i] EXCEPT !.replaced = TRUE]
            ELSE tasks[i]],
         NewTask(next_id + 1, pd))

SpawnDecision(sym, pd, current_peak, lnp) ==
  IF StartsAnalysis(sym, current_peak, lnp)
  THEN /\ Len(tasks) < MaxTasks
       /\ active_analyses' = active_analyses \cup {sym}
       /\ tasks' = [Spawned(pd) EXCEPT ![Len(tasks) + 1] =
                      [@ EXCEPT !.at_peak = current_peak, !.at_lnp = lnp[sym]]]
       /\ next_id' = next_id + 1
  ELSE UNCHANGED <<active_analyses, tasks, next_id>>

\* ------------------------------------------------- the environment
\* time passes while the event loop waits (never inside synchronous code);
\* the clock is observed at the instants of TimePoints
Tick(t) ==
  /\ scan_pc \in {"sleep", "alert", "crashed"}
  /\ t > now
  /\ now' = t
  /\ UNCHANGED <<scan_pc, scan_count, tickers, todo, local, price_snapshots,
                 pump_cooldown, last_notified_peak, last_notified_type,
                 active_analyses, signal_cooldown, no_signal_cooldown, tasks,
                 next_id, alerts, signals, nosignals, ended>>
  /\ UNCHANGED lvars

\* ------------------------------------------------- run / scan_market
\* run, lines 1542-1544: the sleep is over, scan_market awaits the ticker
\* batch; at most n scans are made
ScanStartUpTo(n) ==
  /\ scan_pc = "sleep"
  /\ scan_count < n
  /\ scan_count' = scan_count + 1
  /\ scan_pc' = "fetch"
  /\ UNCHANGED <<now, tickers, todo, local, price_snapshots, pump_cooldown,
                 last_notified_peak, last_notified_type, active_analyses,
                 signal_cooldown, no_signal_cooldown, tasks, next_id, alerts,
                 signals, nosignals, ended>>
  /\ UNCHANGED lvars

ScanStart == ScanStartUpTo(MaxScans)

\* get_ticker_batch returned {} (HTTP error, bad JSON, exception): lines 343-345
FetchFail ==
  /\ scan_pc = "fetch"
  /\ scan_pc' = "sleep"
  /\ UNCHANGED <<now, scan_count, tickers, todo, local, price_snapshots,
                 pump_cooldown, last_notified_peak, last_notified_type,
                 active_analyses, signal_cooldown, no_signal_cooldown, tasks,
                 next_id, alerts, signals, nosignals, ended>>
  /\ UNCHANGED lvars

\* get_ticker_batch returned the batch, stamped with the current time
FetchOK(px, v) ==
  /\ scan_pc = "fetch"
  /\ scan_pc' = "loop"
  /\ tickers' = [ts |-> now, px |-> px, vol |-> v]
  /\ todo' = SymOrder
  /\ UNCHANGED <<now, scan_count, local, price_snapshots, pump_cooldown,
                 last_notified_peak, last_notified_type, active_analyses,
                 signal_cooldown, no_signal_cooldown, tasks, next_id, alerts,
                 signals, nosignals, ended>>
  /\ UNCHANGED lvars

Stored(sym) ==
  Prune(InsertSnapshot(price_snapshots[sym], tickers.ts, tickers.px[sym],
                       tickers.vol),
        tickers.ts)

\* line 372 raises: the exception leaves scan_market and the loop of run (no
\* handler but KeyboardInterrupt, lines 1541-1553); run is in its finally
\* clause, which awaits the closing of the session
ProcessCrash ==
  /\ scan_pc = "loop"
  /\ todo # <<>>
  /\ InsertRaises(price_snapshots[Head(todo)], tickers.px[Head(todo)])
  /\ scan_pc' = "crashed"
  /\ todo' = <<>>
  /\ tickers' = NoTickers
  /\ UNCHANGED <<now, scan_count, local, price_snapshots, pump_cooldown,
                 last_notified_peak, last_notified_type, active_analyses,
                 signal_cooldown, no_signal_cooldown, tasks, next_id, alerts,
                 signals, nosignals, ended>>
  /\ UNCHANGED lvars

\* one iteration of the for loop in which detect_pump reports nothing
ProcessNoPump ==
  /\ scan_pc = "loop"
  /\ todo # <<>>
  /\ LET sym == Head(todo) IN
     /\ ~InsertRaises(price_snapshots[sym], tickers.px[sym])
     /\ ~DetectPump(Stored(sym), now).pump
     /\ price_snapshots' = [price_snapshots EXCEPT ![sym] = Stored(sym)]
  /\ todo' = Tail(todo)
  /\ UNCHANGED <<now, scan_pc, scan_count, tickers, local, pump_cooldown,
                 last_notified_peak, last_notified_type, active_analyses,
                 signal_cooldown, no_signal_cooldown, tasks, next_id, alerts,
                 signals, nosignals, ended>>
  /\ UNCHANGED lvars

\* one iteration with a pump that passes the debounce: the state of the
\* notification is recorded and the loop awaits send_pump_alert (line 485)
ProcessPumpNotify ==
  /\ scan_pc = "loop"
  /\ todo # <<>>
  /\ LET sym == Head(todo)
         s == Stored(sym)
         det == DetectPump(s, now)
         current_peak == CurrentPeak(s)
         recent == Recent(s, now, IF det.type = "FAST" THEN FastPumpTimeframe
                                  ELSE ElitePumpTimeframe)
     IN
     /\ ~InsertRaises(price_snapshots[sym], tickers.px[sym])
     /\ det.pump
     /\ ShouldNotify(sym, det.type, current_peak, now)
     /\ price_snapshots' = [price_snapshots EXCEPT ![sym] = s]
     /\ pump_cooldown' = [pump_cooldown EXCEPT ![sym] = now]
     /\ last_notified_peak' = [last_notified_peak EXCEPT ![sym] = current_peak]
     /\ last_notified_type' = [last_notified_type EXCEPT ![sym] = det.type]
     /\ IF Len(recent) < 2
        THEN /\ scan_pc' = "loop"
             /\ UNCHANGED <<local, alerts>>
        ELSE /\ scan_pc' = "alert"
             /\ local' = [symbol |-> sym,
                          pump_data |-> PumpData(sym, s, det, tickers.px[sym], now),
                          current_peak |-> current_peak]
             /\ alerts' = Append(alerts, [sym |-> sym, type |-> det.type,
                                          peak |-> current_peak])
  /\ todo' = Tail(todo)
  /\ UNCHANGED <<now, scan_count, tickers, active_analyses, signal_cooldown,
                 no_signal_cooldown, tasks, next_id, signals, nosignals, ended>>
  /\ UNCHANGED lvars

\* send_pump_alert returned; lines 487-497
AlertDone ==
  /\ scan_pc = "alert"
  /\ SpawnDecision(local.symbol, local.pump_data, local.current_peak,
                   last_notified_peak)
  /\ scan_pc' = "loop"
  /\ local' = NoLocal
  /\ UNCHANGED <<now, scan_count, tickers, todo, price_snapshots, pump_cooldown,
                 last_notified_peak, last_notified_type, signal_cooldown,
                 no_signal_cooldown, alerts, signals, nosignals, ended>>
  /\ UNCHANGED lvars

\* one iteration with a pump that the debounce silences; lines 487-497 follow
\* without an await
ProcessPumpSilent ==
  /\ scan_pc = "loop"
  /\ todo # <<>>
  /\ LET sym == Head(todo)
         s == Stored(sym)
         det == DetectPump(s, now)
         current_peak == CurrentPeak(s)
         recent == Recent(s, now, IF det.type = "FAST" THEN FastPumpTimeframe
                                  ELSE ElitePumpTimeframe)
     IN
     /\ ~InsertRaises(price_snapshots[sym], tickers.px[sym])
     /\ det.pump
     /\ ~ShouldNotify(sym, det.type, current_peak, now)
     /\ price_snapshots' = [price_snapshots EXCEPT ![sym] = s]
     /\ IF Len(recent) < 2
        THEN UNCHANGED <<active_analyses, tasks, next_id>>
        ELSE SpawnDecision(sym, PumpData(sym, s, det, tickers.px[sym], now),
                           current_peak, last_notified_peak)
  /\ todo' = Tail(todo)
  /\ UNCHANGED <<now, scan_pc, scan_count, tickers, local, pump_cooldown,
                 last_notified_peak, last_notified_type, signal_cooldown,
                 no_signal_cooldown, alerts, signals, nosignals, ended>>
  /\ UNCHANGED lvars

\* the for loop is over; run sleeps scan_interval
ScanEnd ==
  /\ scan_pc = "loop"
  /\ todo = <<>>
  /\ scan_pc' = "sleep"
  /\ tickers' = NoTickers
  /\ UNCHANGED <<now, scan_count, todo, local, price_snapshots, pump_cooldown,
                 last_notified_peak, last_notified_type, active_analyses,
                 signal_cooldown, no_signal_cooldown, tasks, next_id, alerts,
                 signals, nosignals, ended>>
  /\ UNCHANGED lvars

\* ------------------------------------------------- _analyze_with_notification
\* a task runs only while the poll loop is suspended at an await
TaskMayRun(i) ==
  /\ i \in 1..Len(tasks)
  /\ scan_pc \in {"sleep", "fetch", "alert", "crashed"}

\* a task body without the finally clause
ReleaseFlagSkipped(sym) == active_analyses

\* line 611, the finally clause: every exit of the task body passes here
ReleaseFlag(sym) == active_analyses \ {sym}

EndTask(i, path) ==
  /\ tasks' = RemoveAt(tasks, i)
  /\ active_analyses' = ReleaseFlag(tasks[i].sym)
  /\ ended' = ended \cup {<<tasks[i].sym, path>>}

LatestPrice(sym) ==
  IF Len(price_snapshots[sym]) > 0 THEN Last(price_snapshots[sym]).p ELSE 0

\* the 45 minutes the loop had before ("было 45")
MonitoringOpen45(tk) == now - tk.t0 < 45 * MinuteMs

\* lines 569-571: the condition of the while loop
MonitoringOpen(tk) == now - tk.t0 < MaxDurationMs

\* lines 571-585: the head of one iteration of the monitoring loop; tk is the
\* task record on entry
MonitorIteration(i, tk) ==
  IF MonitoringOpen(tk)
  THEN LET price == LatestPrice(tk.sym)
           monitor_interval == MonitorInterval(now - tk.t0)
       IN
       /\ tasks' = [tasks EXCEPT ![i] =
            IF price = 0
            THEN [tk EXCEPT !.pc = "monitor", !.cur = 0,
                            !.interval = monitor_interval,
                            !.wake = now + monitor_interval]
            ELSE [tk EXCEPT !.pc = "analyze", !.cur = price,
                            !.interval = monitor_interval, !.wake = None]]
       /\ UNCHANGED <<active_analyses, ended>>
  ELSE EndTask(i, "timeout")

\* lines 508-537: the task body starts and sleeps for the first check
TaskStart(i) ==
  /\ TaskMayRun(i)
  /\ tasks[i].pc = "new"
  /\ tasks' = [tasks EXCEPT ![i] =
       [tasks[i] EXCEPT !.pc = "confirm", !.t0 = now, !.cur = tasks[i].peak,
                        !.wake = now + CheckInterval(tasks[i].type)]]
  /\ UNCHANGED <<now, scan_pc, scan_count, tickers, todo, local, price_snapshots,
                 pump_cooldown, last_notified_peak, last_notified_type,
                 active_analyses, signal_cooldown, no_signal_cooldown, next_id,
                 alerts, signals, nosignals, ended>>
  /\ UNCHANGED lvars

\* drop_from_peak >= reversal_threshold, lines 549-551
ReversalConfirmed(peak, price, type) ==
  (peak - price) * 1000 >= ReversalThreshold(type) * peak

\* lines 536-566: one wake-up of the reversal-confirmation loop
ConfirmWake(i) ==
  /\ TaskMayRun(i)
  /\ tasks[i].pc = "confirm"
  /\ now >= tasks[i].wake
  /\ LET tk == tasks[i]
         price == LatestPrice(tk.sym)
         seen == Len(price_snapshots[tk.sym]) > 0
         rising == seen /\ price > tk.peak
         confirmed == seen /\ ~rising /\ ReversalConfirmed(tk.peak, price, tk.type)
         after == IF ~seen THEN tk
                  ELSE IF rising THEN [tk EXCEPT !.cur = price, !.peak = price]
                  ELSE [tk EXCEPT !.cur = price]
     IN
     IF confirmed
     THEN \* send_instant_short_signal is entered and awaits its first request
          /\ tasks' = [tasks EXCEPT ![i] =
               [after EXCEPT !.pc = "instant", !.wake = None]]
          /\ UNCHANGED <<active_analyses, ended>>
     ELSE IF now - tk.t0 < ConfirmationTimeout(tk.type)
     THEN /\ tasks' = [tasks EXCEPT ![i] =
               [after EXCEPT !.wake = now + CheckInterval(tk.type)]]
          /\ UNCHANGED <<active_analyses, ended>>
     ELSE MonitorIteration(i, after)
  /\ UNCHANGED <<now, scan_pc, scan_count, tickers, todo, local, price_snapshots,
                 pump_cooldown, last_notified_peak, last_notified_type,
                 signal_cooldown, no_signal_cooldown, next_id, alerts, signals,
                 nosignals>>
  /\ UNCHANGED lvars

\* line 604 and back to line 571
MonitorWake(i) ==
  /\ TaskMayRun(i)
  /\ tasks[i].pc = "monitor"
  /\ now >= tasks[i].wake
  /\ MonitorIteration(i, tasks[i])
  /\ UNCHANGED <<now, scan_pc, scan_count, tickers, todo, local, price_snapshots,
                 pump_cooldown, last_notified_peak, last_notified_type,
                 signal_cooldown, no_signal_cooldown, next_id, alerts, signals,
                 nosignals>>
  /\ UNCHANGED lvars

\* ------------------------------------------------- the instant path
\* a label for the low scores instead of the early return
InstantTierNoReject(score) ==
  IF score >= 80 THEN "A"
  ELSE IF score >= InstantMinScore THEN "B"
  ELSE "C"

\* send_instant_short_signal, lines 892-900: the label of the adjusted score
InstantTier(score) ==
  IF score >= 80 THEN "A"
  ELSE IF score >= InstantMinScore THEN "B"
  ELSE "REJECT"

Signal(tk, path, score, entry) ==
  [sym |-> tk.sym, path |-> path, score |-> score, entry |-> entry,
   id |-> tk.id, replaced |-> tk.replaced, peak |-> tk.peak]

\* lines 558-564 and 644-900: the analyzers answered with a score below the
\* B tier, or an exception was caught at line 1001: nothing is broadcast
InstantReject(i, score, raises) ==
  /\ TaskMayRun(i)
  /\ tasks[i].pc = "instant"
  /\ raises \/ InstantTier(score) = "REJECT"
  /\ signal_cooldown' = [signal_cooldown EXCEPT ![tasks[i].sym] = now]
  /\ EndTask(i, "rejected")
  /\ UNCHANGED <<now, scan_pc, scan_count, tickers, todo, local, price_snapshots,
                 pump_cooldown, last_notified_peak, last_notified_type,
                 no_signal_cooldown, next_id, alerts, signals, nosignals>>
  /\ UNCHANGED lvars

\* lines 892-935: tier A or B, the signal is handed to the broadcaster with
\* entry = the price of the confirming tick
InstantEmit(i, score) ==
  /\ TaskMayRun(i)
  /\ tasks[i].pc = "instant"
  /\ InstantTier(score) # "REJECT"
  /\ signals' = Append(signals, Signal(tasks[i], "instant", score,
                                       tasks[i].cur * 100))
  /\ tasks' = [tasks EXCEPT ![i] = [@ EXCEPT !.pc = "instant_send"]]
  /\ UNCHANGED <<now, scan_pc, scan_count, tickers, todo, local, price_snapshots,
                 pump_cooldown, last_notified_peak, last_notified_type,
                 active_analyses, signal_cooldown, no_signal_cooldown, next_id,
                 alerts, nosignals, ended>>
  /\ UNCHANGED lvars

\* lines 937-1002 and 563-564: the broadcast returned, the task returns
SendDone(i) ==
  /\ TaskMayRun(i)
  /\ tasks[i].pc \in {"instant_send", "slow_send"}
  /\ signal_cooldown' = [signal_cooldown EXCEPT ![tasks[i].sym] = now]
  /\ EndTask(i, "signal")
  /\ UNCHANGED <<now, scan_pc, scan_count, tickers, todo, local, price_snapshots,
                 pump_cooldown, last_notified_peak, last_notified_type,
                 no_signal_cooldown, next_id, alerts, signals, nosignals>>
  /\ UNCHANGED lvars

\* ------------------------------------------------- the slow path
\* signal_generator.generate_signal, lines 276-296
SignalGrade(quality) ==
  IF quality < MinScoreForSignal THEN "NONE"
  ELSE IF quality >= 70 THEN "A"
  ELSE IF quality >= 45 THEN "B"
  ELSE "C"

\* lines 304-314, for pump types FAST and ELITE (is_fast_pump is False)
DistanceOk(peak, current) ==
  /\ ~((peak - current) * 100 > 10 * peak)
  /\ ~((peak - current) * 1000 < 5 * peak)

\* lines 318-327, in hundredths; resistance = 0: the orderbook gave none
EntryPrice(peak, current, resistance) ==
  IF resistance > 0 /\ current + resistance > current
  THEN (current + resistance) * 100
  ELSE Max2(current * 100, peak * 95)

\* analyze_and_generate_signal returns a signal: klines are there (from the
\* exchange or rebuilt from >= 5 snapshots), nothing raised, generate_signal
\* passed its gates
YieldsSignal(tk, klines, raises, quality) ==
  LET s == price_snapshots[tk.sym] IN
  /\ ~raises
  /\ klines \/ Len(s) >= 5
  /\ Len(s) >= 2
  /\ SignalGrade(quality) # "NONE"
  /\ DistanceOk(tk.peak, Last(s).p)

\* the task only gives up below the start price
AbandonedBelowStart(tk) == tk.cur < tk.start

\* lines 595-599
Abandoned(tk) ==
  \/ tk.cur * 10 < tk.peak * 10 - (tk.peak - tk.start) * 7
  \/ tk.cur * 100 <= tk.start * 101

\* a notification without the 30-minute check
NoSignalMutedNever(sym) == FALSE

\* a pause of one hour between notifications
NoSignalMutedHour(sym) ==
  /\ no_signal_cooldown[sym] # None
  /\ now - no_signal_cooldown[sym] < 60 * MinuteMs

\* send_no_signal_notification, lines 617-622
NoSignalMuted(sym) ==
  /\ no_signal_cooldown[sym] # None
  /\ now - no_signal_cooldown[sym] < NoSignalCooldownMin * MinuteMs

\* lines 588-604 with no signal returned
AnalyzeNoSignal(i, klines, raises, quality) ==
  /\ TaskMayRun(i)
  /\ tasks[i].pc = "analyze"
  /\ ~YieldsSignal(tasks[i], klines, raises, quality)
  /\ LET tk == tasks[i] IN
     IF Abandoned(tk)
     THEN IF NoSignalMuted(tk.sym)
          THEN /\ EndTask(i, "abandoned")
               /\ UNCHANGED <<no_signal_cooldown, nosignals>>
          ELSE /\ no_signal_cooldown' = [no_signal_cooldown EXCEPT ![tk.sym] = now]
               /\ nosignals' = Append(nosignals, [sym |-> tk.sym, at |-> now])
               /\ tasks' = [tasks EXCEPT ![i] = [tk EXCEPT !.pc = "nosignal_send"]]
               /\ UNCHANGED <<active_analyses, ended>>
     ELSE /\ tasks' = [tasks EXCEPT ![i] =
               [tk EXCEPT !.pc = "monitor", !.wake = now + tk.interval]]
          /\ UNCHANGED <<active_analyses, ended, no_signal_cooldown, nosignals>>
  /\ UNCHANGED <<now, scan_pc, scan_count, tickers, todo, local, price_snapshots,
                 pump_cooldown, last_notified_peak, last_notified_type,
                 signal_cooldown, next_id, alerts, signals>>
  /\ UNCHANGED lvars

\* lines 1105-1128: the signal is handed to the broadcaster
AnalyzeSignal(i, klines, quality, resistance) ==
  /\ TaskMayRun(i)
  /\ tasks[i].pc = "analyze"
  /\ YieldsSignal(tasks[i], klines, FALSE, quality)
  /\ signals' = Append(signals,
       Signal(tasks[i], "slow", quality,
              EntryPrice(tasks[i].peak, Last(price_snapshots[tasks[i].sym]).p,
                         resistance)))
  /\ tasks' = [tasks EXCEPT ![i] = [@ EXCEPT !.pc = "slow_send"]]
  /\ UNCHANGED <<now, scan_pc, scan_count, tickers, todo, local, price_snapshots,
                 pump_cooldown, last_notified_peak, last_notified_type,
                 active_analyses, signal_cooldown, no_signal_cooldown, next_id,
                 alerts, nosignals, ended>>
  /\ UNCHANGED lvars

\* lines 632-637 and 601-602: the "entry not found" broadcast returned
NoSignalSent(i) ==
  /\ TaskMayRun(i)
  /\ tasks[i].pc = "nosignal_send"
  /\ EndTask(i, "abandoned")
  /\ UNCHANGED <<now, scan_pc, scan_count, tickers, todo, local, price_snapshots,
                 pump_cooldown, last_notified_peak, last_notified_type,
                 signal_cooldown, no_signal_cooldown, next_id, alerts, signals,
                 nosignals>>
  /\ UNCHANGED lvars

\* the finally clause of run is over and the exception leaves main:
\* asyncio.run cancels every pending task
Shutdown ==
  /\ scan_pc = "crashed"
  /\ scan_pc' = "stopped"
  /\ UNCHANGED <<now, scan_count, tickers, todo, local, price_snapshots,
                 pump_cooldown, last_notified_peak, last_notified_type,
                 active_analyses, signal_cooldown, no_signal_cooldown, tasks,
                 next_id, alerts, signals, nosignals, ended>>
  /\ UNCHANGED lvars

\* CancelledError is raised at the await of a pending task; it is not an
\* Exception, so only the finally clause of the task runs
CancelTask(i) ==
  /\ i \in 1..Len(tasks)
  /\ scan_pc = "stopped"
  /\ EndTask(i, "cancelled")
  /\ UNCHANGED <<now, scan_pc, scan_count, tickers, todo, local, price_snapshots,
                 pump_cooldown, last_notified_peak, last_notified_type,
                 signal_cooldown, no_signal_cooldown, next_id, alerts, signals,
                 nosignals>>
  /\ UNCHANGED lvars

\* ------------------------------------------------- specification
Init ==
  /\ now = 0
  /\ scan_pc = "sleep"
  /\ scan_count = 0
  /\ tickers = NoTickers
  /\ todo = <<>>
  /\ local = NoLocal
  /\ price_snapshots = [s \in Symbols |-> <<>>]
  /\ pump_cooldown = [s \in Symbols |-> None]
  /\ last_notified_peak = [s \in Symbols |-> None]
  /\ last_notified_type = [s \in Symbols |-> ""]
  /\ active_analyses = {}
  /\ signal_cooldown = [s \in Symbols |-> None]
  /\ no_signal_cooldown = [s \in Symbols |-> None]
  /\ tasks = <<>>
  /\ next_id = 0
  /\ alerts = <<>>
  /\ signals = <<>>
  /\ nosignals = <<>>
  /\ ended = {}
  /\ signal_memory = <<>>
  /\ coin_intelligence = [s \in Symbols |-> NoProfile]
  /\ coin_memory = [s \in Symbols |-> NoProfile]
  /\ signal_count = 0
  /\ instant_levels = <<>>
  /\ ml_predictor = NoModel
  /\ model_file = NoFile
  /\ clock_hour = 0
  /\ predictions = {}
  /\ active_signals = <<>>
  /\ signal_results = <<>>
  /\ active_trails = <<>>
  /\ last_outcome = NoCall
  /\ trail_results = <<>>

TaskIds == 1..MaxTasks

TaskNext ==
  \/ \E i \in TaskIds : TaskStart(i)
  \/ \E i \in TaskIds : ConfirmWake(i)
  \/ \E i \in TaskIds : MonitorWake(i)
  \/ \E i \in TaskIds, score \in InstantScores, raises \in BOOLEAN :
       InstantReject(i, score, raises)
  \/ \E i \in TaskIds, score \in InstantScores : InstantEmit(i, score)
  \/ \E i \in TaskIds : SendDone(i)
  \/ \E i \in TaskIds, klines \in BOOLEAN, raises \in BOOLEAN, q \in SlowScores :
       AnalyzeNoSignal(i, klines, raises, q)
  \/ \E i \in TaskIds, klines \in BOOLEAN, q \in SlowScores, r \in Resistances :
       AnalyzeSignal(i, klines, q, r)
  \/ \E i \in TaskIds : NoSignalSent(i)

ScanNext ==
  \/ ScanStart
  \/ FetchFail
  \/ ProcessNoPump
  \/ ProcessPumpNotify
  \/ AlertDone
  \/ ProcessPumpSilent
  \/ ScanEnd

Next ==
  \/ \E t \in TimePoints : Tick(t)
  \/ \E px \in [Symbols -> Prices], v \in Volumes : FetchOK(px, v)
  \/ ScanNext
  \/ ProcessCrash
  \/ TaskNext
  \/ Shutdown
  \/ \E i \in TaskIds : CancelTask(i)

Spec == Init /\ [][Next]_vars

\* ------------------------------------------------- scripted feeds
\* One symbol is fed a fixed price sequence, the k-th scan delivering the
\* k-th price; the interleaving of the poll loop and the tasks stays free.

\* the sequence 100, 110, 111, 112, 111.2, 110.8 in tenths of a price unit
RevFeed == <<1000, 1100, 1110, 1120, 1112, 1108>>
RevTimes == {0, 2000, 4000, 6000, 8000, 10000, 12000}

RevScanStart == ScanStartUpTo(Len(RevFeed))

RevFetch ==
  /\ scan_count \in 1..Len(RevFeed)
  /\ FetchOK([sym \in Symbols |-> RevFeed[scan_count]], 10)

NextRev ==
  \/ \E t \in RevTimes : Tick(t)
  \/ RevScanStart
  \/ RevFetch
  \/ ProcessNoPump
  \/ ProcessPumpNotify
  \/ AlertDone
  \/ ProcessPumpSilent
  \/ ScanEnd
  \/ \E i \in TaskIds : TaskStart(i)
  \/ \E i \in TaskIds : ConfirmWake(i)
  \/ \E i \in TaskIds, score \in InstantScores, raises \in BOOLEAN :
       InstantReject(i, score, raises)
  \/ \E i \in TaskIds, score \in InstantScores : InstantEmit(i, score)
  \/ \E i \in TaskIds : SendDone(i)

SpecRev == Init /\ [][NextRev]_vars

\* the prices 100, 104, 110, 112, 111, one every 30 s from t = 0
E2EFeed == <<100, 104, 110, 112, 111>>
E2EPeriod == 30 * 1000
E2ETimes == {k * E2EPeriod : k \in 0..6}

\* the next scan is due at E2EPeriod * scan_count; time does not pass it by
E2ETick(t) ==
  /\ scan_count < Len(E2EFeed) => t <= E2EPeriod * scan_count
  /\ Tick(t)

E2EScanStart ==
  /\ now = E2EPeriod * scan_count
  /\ ScanStartUpTo(Len(E2EFeed))

E2EFetch ==
  /\ scan_count \in 1..Len(E2EFeed)
  /\ FetchOK([sym \in Symbols |-> E2EFeed[scan_count]], 10)

NextE2E ==
  \/ \E t \in E2ETimes : E2ETick(t)
  \/ E2EScanStart
  \/ E2EFetch
  \/ ProcessNoPump
  \/ ProcessPumpNotify
  \/ AlertDone
  \/ ProcessPumpSilent
  \/ ScanEnd
  \/ \E i \in TaskIds : TaskStart(i)
  \/ \E i \in TaskIds : ConfirmWake(i)
  \/ \E i \in TaskIds : MonitorWake(i)
  \/ \E i \in TaskIds, score \in InstantScores, raises \in BOOLEAN :
       InstantReject(i, score, raises)
  \/ \E i \in TaskIds, score \in InstantScores : InstantEmit(i, score)
  \/ \E i \in TaskIds : SendDone(i)
  \/ \E i \in TaskIds, klines \in BOOLEAN, raises \in BOOLEAN, q \in SlowScores :
       AnalyzeNoSignal(i, klines, raises, q)
  \/ \E i \in TaskIds, klines \in BOOLEAN, q \in SlowScores, r \in Resistances :
       AnalyzeSignal(i, klines, q, r)

SpecE2E == Init /\ [][NextE2E]_vars

\* Two episodes, 33 minutes apart.  In each the prices 100, 110 start a
\* monitoring task of the symbol and the next scan starts a second one (a
\* higher-high restart); six minutes later, when the 5-minute window has
\* passed, the price is back at 100 and ends them.
NoSigFeed == <<100, 110, 116, 100, 100, 110, 110, 100>>
\* the time at which each scan is due
NoSigDue == <<0, 30000, 30000, 360000, 1980000, 1980000, 1980000, 2340000>>
NoSigTimes == {0, 30000, 360000, 600000, 1980000, 2340000, 2400000}

\* time does not pass the next scan by
NoSigTick(t) ==
  /\ scan_count < Len(NoSigFeed) => t <= NoSigDue[scan_count + 1]
  /\ Tick(t)

NoSigScanStart ==
  /\ scan_count < Len(NoSigFeed)
  /\ now = NoSigDue[scan_count + 1]
  /\ ScanStartUpTo(Len(NoSigFeed))

NoSigFetch ==
  /\ scan_count \in 1..Len(NoSigFeed)
  /\ FetchOK([sym \in Symbols |-> NoSigFeed[scan_count]], 10)

NextNoSig ==
  \/ \E t \in NoSigTimes : NoSigTick(t)
  \/ NoSigScanStart
  \/ NoSigFetch
  \/ ProcessNoPump
  \/ ProcessPumpNotify
  \/ AlertDone
  \/ ProcessPumpSilent
  \/ ScanEnd
  \/ TaskNext

SpecNoSig == Init /\ [][NextNoSig]_vars

\* A quiet market for the snapshot store: the prices stay within 1.2 %, so no
\* pump is detected; the prices differ, so a stored snapshot tells the scan
\* that delivered it; the scans come at any of the instants of StoreTimes,
\* the last two of them past the 40-minute retention of the first ones.
StoreFeed == <<1000, 1001, 1004, 1005, 1010, 1013, 1014>>
StoreTimes == {0, 1500, 3000, 7000, 2403000, 2404000}

StoreScanStart == ScanStartUpTo(Len(StoreFeed))

StoreFetch ==
  /\ scan_count \in 1..Len(StoreFeed)
  /\ FetchOK([sym \in Symbols |-> StoreFeed[scan_count]], 10)

NextStore ==
  \/ \E t \in StoreTimes : Tick(t)
  \/ StoreScanStart
  \/ StoreFetch
  \/ ProcessNoPump
  \/ ScanEnd

SpecStore == Init /\ [][NextStore]_vars

\* ------------------------------------------------- claims
LiveIds(sym) == {tasks[i].id : i \in TasksOf(sym)}

InEmission(i) == tasks[i].pc \in {"instant", "instant_send", "analyze", "slow_send"}

\* C1, as stated: at any time at most one monitoring task is running for a
\* given symbol
C1_AtMostOneTaskPerSymbol ==
  \A sym \in Symbols : Cardinality(TasksOf(sym)) <= 1

\* C2, as stated: a task that a higher-high restart has replaced emits no
\* signal after the new task has been started
C2_ReplacedTaskEmitsNothing ==
  \A k \in 1..Len(signals) : ~signals[k].replaced

\* C3, as stated: two monitoring tasks of one symbol are never at the same
\* time inside send_instant_short_signal or analyze_and_generate_signal
C3_EmissionSerialized ==
  \A i, j \in 1..Len(tasks) :
    (i # j /\ tasks[i].sym = tasks[j].sym) => ~(InEmission(i) /\ InEmission(j))

\* C4: whenever a monitoring task of a symbol ends, whatever the exit path,
\* the symbol is not in active_analyses once the task has ended
C4_FlagReleasedOnEveryExit ==
  [][\A sym \in Symbols :
       (\E id \in LiveIds(sym) : id \notin LiveIds(sym)')
         => sym \notin active_analyses']_vars

\* C4: a task has ended by cancellation, no task of the symbol is left and
\* the flag is released
C4_Witness ==
  \E sym \in Symbols :
    /\ <<sym, "cancelled">> \in ended
    /\ TasksOf(sym) = {}
    /\ sym \notin active_analyses

C6_PollLoopNeverStops == scan_pc # "crashed"

\* C7, as stated: the poll loop suspends only on the ticker-batch request and
\* on the inter-tick sleep, never on a broadcaster send
C7_NeverWaitsForBroadcast ==
  scan_pc \in {"sleep", "fetch", "loop", "crashed", "stopped"}

\* the pump that the for loop is about to handle, if any
PumpAhead ==
  /\ scan_pc = "loop"
  /\ todo # <<>>
  /\ ~InsertRaises(price_snapshots[Head(todo)], tickers.px[Head(todo)])
  /\ DetectPump(Stored(Head(todo)), now).pump

Confirmed(tk) == tk.pc \in {"instant", "instant_send"}

E2EDone ==
  /\ scan_count = Len(E2EFeed)
  /\ scan_pc = "sleep"
  /\ next_id > 0
  /\ tasks = <<>>

\* C9, as stated: with the prices 100, 104, 110, 112, 111 fed at 30 s
\* intervals the run ends with an instant signal whose entry is 111
C9_InstantSignalEmitted ==
  E2EDone =>
    \E k \in 1..Len(signals) :
      signals[k].path = "instant" /\ signals[k].entry = 11100

\* C9, amended: the FAST pump is detected on the third tick (110, t = 60 s)
\* and its notification, the first, passes the debounce; a reversal is
\* confirmed only on the t = 120 s tick (111, recorded peak 112); an instant
\* signal is broadcast only with an adjusted score >= 6.0 and its entry is 111
C9_EndToEnd ==
  /\ scan_count < 3 => alerts = <<>> /\ tasks = <<>>
  /\ (scan_count > 3 \/ (scan_count = 3 /\ scan_pc \in {"alert", "sleep"})) =>
       /\ Len(alerts) = 1
       /\ alerts[1].type = "FAST"
       /\ alerts[1].peak = 110
       /\ pump_cooldown["BTC"] = 2 * E2EPeriod
  /\ \A i \in 1..Len(tasks) :
       Confirmed(tasks[i]) =>
         /\ tasks[i].cur = 111
         /\ tasks[i].peak = 112
         /\ now >= 4 * E2EPeriod
         /\ tasks[i].t0 + ConfirmationTimeout("FAST") >= 4 * E2EPeriod
  /\ \A k \in 1..Len(signals) :
       signals[k].path = "instant" =>
         /\ signals[k].entry = 11100
         /\ signals[k].score >= 60

\* C9: the instant signal with entry 111 has been broadcast after the
\* confirmation on the t = 120 s tick
C9_Witness ==
  /\ now = 4 * E2EPeriod
  /\ Len(alerts) = 1
  /\ \E k \in 1..Len(signals) :
       /\ signals[k].path = "instant"
       /\ signals[k].entry = 11100
       /\ signals[k].peak = 112

\* C11: for every symbol, any two "entry not found" notifications that are
\* sent are at least 30 minutes apart, also when several monitoring tasks of
\* the symbol end concurrently.
C11_NotificationsSpaced ==
  \A i, j \in 1..Len(nosignals) :
    (i < j /\ nosignals[i].sym = nosignals[j].sym)
      => nosignals[j].at - nosignals[i].at >= NoSignalCooldownMin * MinuteMs

\* a second notification is being sent, half an hour after the first, while
\* another task of the symbol is about to abandon as well
C11_Witness ==
  /\ Len(nosignals) = 2
  /\ \E i, j \in 1..Len(tasks) :
       /\ i # j
       /\ tasks[i].sym = tasks[j].sym
       /\ tasks[i].pc = "nosignal_send"
       /\ tasks[j].pc = "analyze"
       /\ Abandoned(tasks[j])
       /\ nosignals[2].sym = tasks[i].sym
       /\ nosignals[2].at = now

\* the task with this id is no more, or is at the given place of its body
GoneOrAt(id, pcs) ==
  \A j \in 1..Len(tasks') : tasks'[j].id = id => tasks'[j].pc \in pcs

\* no "entry not found" notification of the symbol in the last 30 minutes
QuietFor(sym) ==
  \A k \in 1..Len(nosignals) :
    nosignals[k].sym = sym
      => now - nosignals[k].at >= NoSignalCooldownMin * MinuteMs

\* C12, as stated: whenever a monitoring task ends without having emitted a
\* signal and no "entry not found" notification was sent for the symbol in
\* the preceding 30 minutes, a notification is sent for that symbol.
C12_EveryEndNotifies ==
  [][\A i \in 1..Len(tasks) :
       ( /\ GoneOrAt(tasks[i].id, {})
         /\ \A k \in 1..Len(signals') : signals'[k].id # tasks[i].id
         /\ QuietFor(tasks[i].sym) )
       => \E k \in 1..Len(nosignals') :
            nosignals'[k].sym = tasks[i].sym /\ nosignals'[k].at = now]_vars

\* C12, amended: a notification is handed to the broadcaster exactly when an
\* iteration of the slow monitoring loop got no signal, its price is below
\* peak - 0.7 (peak - start) or at most 1.01 start, and no notification was
\* sent for the symbol in the preceding 30 minutes; no other end of a task
\* (rejected instant signal, 15-minute timeout) sends one.
C12_NotifiesOnAbandon ==
  [][LET abandons(i) ==
           /\ tasks[i].pc = "analyze"
           /\ scan_pc # "stopped"
           /\ \/ tasks[i].cur * 10 < tasks[i].peak * 10
                                      - (tasks[i].peak - tasks[i].start) * 7
              \/ tasks[i].cur * 100 <= tasks[i].start * 101
           /\ GoneOrAt(tasks[i].id, {"nosignal_send"})
           /\ QuietFor(tasks[i].sym)
         notified(i) ==
           nosignals' = Append(nosignals, [sym |-> tasks[i].sym, at |-> now])
     IN  /\ \A i \in 1..Len(tasks) : abandons(i) => notified(i)
         /\ nosignals' # nosignals
              => \E i \in 1..Len(tasks) : abandons(i) /\ notified(i)]_vars

\* a task abandons and notifies after an earlier task of the symbol ran
\* into the 15-minute timeout, which sent nothing
C12_Witness ==
  /\ \E i \in 1..Len(tasks) :
       /\ tasks[i].pc = "nosignal_send"
       /\ Last(nosignals) = [sym |-> tasks[i].sym, at |-> now]
       /\ <<tasks[i].sym, "timeout">> \in ended
  /\ Len(nosignals) = 1

\* C13: a monitoring task starts no new iteration of the monitoring loop once
\* 15 minutes have elapsed since it started (and no new iteration of the
\* confirmation loop once the confirmation timeout has elapsed): a task that
\* wakes up after the deadline ends, or finishes the reversal check in flight.
C13_NoIterationAfterDeadline ==
  [][\A i \in 1..Len(tasks) : \A j \in 1..Len(tasks') :
       ( /\ tasks'[j].id = tasks[i].id
         /\ tasks[i].pc \in {"confirm", "monitor"}
         /\ [tasks'[j] EXCEPT !.replaced = tasks[i].replaced] # tasks[i] )
       => /\ tasks'[j].pc \in {"analyze", "monitor"}
               => now - tasks[i].t0 < MaxDurationMs
          /\ tasks'[j].pc = "confirm"
               => now - tasks[i].t0 < ConfirmationTimeout(tasks[i].type)
          /\ tasks'[j].pc \in {"analyze", "monitor", "confirm", "instant"}]_vars

\* a task ran into the 15-minute timeout while another one, started later,
\* is still inside its monitoring loop
C13_Witness ==
  \E sym \in Symbols :
    /\ <<sym, "timeout">> \in ended
    /\ now >= MaxDurationMs
    /\ \E i \in TasksOf(sym) : tasks[i].pc \in {"analyze", "monitor"}

\* C14: for every symbol the stored snapshot series is in non-decreasing
\* timestamp order, also after a drift overwrite of the head and after
\* pruning.
C14_SeriesOrdered ==
  \A sym \in Symbols :
    \A i, j \in 1..Len(price_snapshots[sym]) :
      i < j => price_snapshots[sym][i].t <= price_snapshots[sym][j].t

\* seven scans: the snapshots of the first three are pruned (at 40 min 3 s),
\* those of the fourth and the fifth are kept, and the snapshot of the sixth,
\* appended after the fifth, was overwritten by the seventh one second later
C14_Witness ==
  /\ scan_count = Len(StoreFeed)
  /\ scan_pc = "sleep"
  /\ price_snapshots["BTC"] =
       <<Snap(7000, StoreFeed[4], 10), Snap(2403000, StoreFeed[5], 10),
         Snap(2404000, StoreFeed[7], 10)>>

\* C15: for every symbol, after each insert the newest and the oldest stored
\* snapshot are at most the 40-minute retention window apart.
C15_RetentionWindow ==
  \A sym \in Symbols :
    \A i, j \in 1..Len(price_snapshots[sym]) :
      price_snapshots[sym][j].t - price_snapshots[sym][i].t <= RetentionMs

\* the insert of the fifth scan, at 40 min 3 s, pruned the snapshot of the
\* first scan (and the one stored at 3 s, exactly 40 minutes old) and kept
\* the one stored at 7 s
C15_Witness ==
  /\ scan_count = 5
  /\ scan_pc = "sleep"
  /\ price_snapshots["BTC"] =
       <<Snap(7000, StoreFeed[4], 10), Snap(2403000, StoreFeed[5], 10)>>

\* C16, as stated: inserting the same snapshot (same timestamp, price and
\* volume) twice in a row leaves the series with the same number of entries
\* as inserting it once, whatever the stored series.
C16_InsertIdempotent ==
  \A sym \in Symbols : \A k \in 1..Len(StoreFeed) :
    LET once == Prune(InsertSnapshot(price_snapshots[sym], now, StoreFeed[k], 10),
                      now)
        twice == Prune(InsertSnapshot(once, now, StoreFeed[k], 10), now)
    IN  Len(twice) = Len(once)

\* the poll loop is about to run detect_pump on the series of a symbol
Detecting ==
  /\ scan_pc = "loop"
  /\ todo # <<>>
  /\ ~InsertRaises(price_snapshots[Head(todo)], tickers.px[Head(todo)])

\* C17: when both detection windows qualify the reported kind is FAST; ELITE
\* is reported only when the 20-minute window shows a rise >= 20 % and the
\* 5-minute window does not qualify as FAST.
C17_FastBeforeElite ==
  Detecting =>
    LET s == Stored(Head(todo))
        det == DetectPump(s, now)
    IN  /\ (det.pump /\ FastQualifies(s, now) /\ EliteQualifies(s, now))
             => det.type = "FAST"
        /\ det.type = "ELITE"
             => (EliteQualifies(s, now) /\ ~FastQualifies(s, now))
        /\ det.type = "FAST" => FastQualifies(s, now)

\* an ELITE pump was notified before, and now both windows qualify and a
\* pump is reported
C17_Witness ==
  /\ PumpAhead
  /\ FastQualifies(Stored(Head(todo)), now)
  /\ EliteQualifies(Stored(Head(todo)), now)
  /\ \E k \in 1..Len(alerts) : alerts[k].type = "ELITE"

\* C18: a candidate pump is discarded exactly when its peak is more than
\* 3 minutes old and the current price has dropped less than 1.5 % from that
\* peak; a candidate whose price has fallen at least 1.5 % from the peak is
\* reported however old the peak is.
C18_StaleFilter ==
  Detecting =>
    LET s == Stored(Head(todo))
        type == CandidateType(s, now)
        peak == MaxSnap(WindowOf(s, now, type))
        old == now - peak.t > 3 * MinuteMs
        fallen == (peak.p - Last(s).p) * 1000 >= 15 * peak.p
    IN  type # "" =>
          /\ DetectPump(s, now).pump <=> ~(old /\ ~fallen)
          /\ fallen => DetectPump(s, now).pump

\* a candidate whose peak is more than 3 minutes old is reported, the price
\* having fallen at least 1.5 % from the peak
C18_Witness ==
  /\ PumpAhead
  /\ LET s == Stored(Head(todo))
         peak == MaxSnap(WindowOf(s, now, CandidateType(s, now)))
     IN  /\ now - peak.t > 3 * MinuteMs
         /\ (peak.p - Last(s).p) * 1000 >= 15 * peak.p

\* C19, as stated: the detector reports a pump only for a price rise: in the
\* reported window the minimum-price snapshot (start) is not later than the
\* maximum-price snapshot (peak).
C19_OnlyRises ==
  PumpAhead =>
    LET s == Stored(Head(todo))
        r == WindowOf(s, now, DetectPump(s, now).type)
    IN  MinSnap(r).t <= MaxSnap(r).t

\* C20, as stated: the pump data handed to the orchestrator carries
\* price_start = the minimum and price_peak = the maximum price of the
\* reported kind's window, so that (price_peak - price_start) / price_start
\* is the reported rise.  Stated here for the windows in which the price
\* rose (the minimum is stored before the maximum).
C20_PumpDataMatchesRise ==
  PumpAhead =>
    LET sym == Head(todo)
        s == Stored(sym)
        det == DetectPump(s, now)
        r == WindowOf(s, now, det.type)
        pd == PumpData(sym, s, det, tickers.px[sym], now)
        rose == \E i, j \in 1..Len(r) :
                  i < j /\ r[i] = MinSnap(r) /\ r[j] = MaxSnap(r)
    IN  (Len(r) >= 2 /\ rose) =>
          /\ pd.price_start = MinSnap(r).p
          /\ pd.price_peak = MaxSnap(r).p
          /\ (pd.price_peak - pd.price_start) * pd.den = pd.num * pd.price_start

\* ------------------------------------------------- level calculator
\* sl_tp_calculator.py.  Prices are whole numbers and every level is an
\* integer count of a fixed fraction of the price unit, so that the products
\* of the source are exact: 1/10000 for the stop-loss, 1/100000 for the
\* take-profits of calculate, 1/2000000 for the take-profits that are recorded.
SlUnit == 100 * 100
CalcUnit == 100 * 1000
TpUnit == 20 * CalcUnit

Min2(a, b) == IF a <= b THEN a ELSE b

\* lines 109-116, in tenths
SpeedMult(pump_speed_minutes) ==
  IF pump_speed_minutes <= 2 THEN 14
  ELSE IF pump_speed_minutes <= 5 THEN 12
  ELSE IF pump_speed_minutes <= 10 THEN 10
  ELSE 8

\* lines 130-135 and 159-161: peak - range * k/1000, in thousandths.  The
\* history branch of line 164 is never taken: _get_coin_history asks the
\* database for get_signals_for_coin, which it does not have, and falls back
\* to total_pumps = 0
FibLevel(peak_price, start_price, k) ==
  1000 * peak_price - k * (peak_price - start_price)

\* lines 205-209: entry - (entry - base_tp) * final_mult, final_mult in
\* hundredths
TargetPrice(entry_price, base_tp, final_mult) ==
  entry_price * CalcUnit - (entry_price * 1000 - base_tp) * final_mult

\* line 386: abs(price - target) <= target * 0.03
InSearchRange(price, target) ==
  Abs(price * CalcUnit - target) <= (3 * target) \div 100

\* lines 376-390: the bid of the greatest volume within the range, the first
\* of them on a tie; a bid is <<price, volume>>
RECURSIVE BestWall(_, _, _, _)
BestWall(bids, target, best_wall, best_vol) ==
  IF bids = <<>> THEN <<best_wall, best_vol>>
  ELSE LET item == Head(bids)
       IN  IF InSearchRange(item[1], target) /\ item[2] > best_vol
           THEN BestWall(Tail(bids), target, item[1], item[2])
           ELSE BestWall(Tail(bids), target, best_wall, best_vol)

\* _adjust_to_liquidity, lines 371-396
AdjustToLiquidity(target, bids) ==
  IF bids = <<>> THEN target
  ELSE LET best == BestWall(bids, target, None, 0)
       IN  IF best[1] # None /\ best[1] # 0 /\ best[2] > 0
           THEN best[1] * 100300
           ELSE target

\* a stop-loss without the floor above the peak
StopLossNoFloor(entry_price, peak_price, atr_pct) ==
  Min2(entry_price * (SlUnit + 15 * atr_pct), entry_price * 11000)

\* lines 226-232; atr_pct in tenths of a percent
StopLoss(entry_price, peak_price, atr_pct) ==
  LET min_sl == peak_price * 10100
      atr_sl == entry_price * (SlUnit + 15 * atr_pct)
      max_sl == entry_price * 11000
  IN  Min2(Max2(min_sl, atr_sl), max_sl)

\* _fallback, lines 414-424
Fallback(entry_price) ==
  [stop_loss |-> entry_price * 10500,
   take_profits |-> <<entry_price * 92000, entry_price * 85000,
                      entry_price * 75000>>]

\* what calculate takes from the candles: the product of the candle,
\* god_eye and dominator multipliers in tenths (the delta-volume multiplier
\* stays 1.0, advanced_analyzers has no AdvancedAnalyzer to import, and for
\* the same reason no psychological level is applied, lines 19-23) and the
\* ATR of lines 125-127
NoKlines == [mult |-> 10, atr_pct |-> 50]

\* calculate, lines 98-272: every exception, the division by a zero
\* start_price of line 99 included, ends in _fallback
Calculate(entry_price, peak_price, start_price, pump_speed_minutes, klines, orderbook, raises) ==
  IF raises \/ start_price = 0 THEN Fallback(entry_price)
  ELSE
    LET final_mult == SpeedMult(pump_speed_minutes) * klines.mult
        tp(k) == TargetPrice(entry_price,
                             FibLevel(peak_price, start_price, k), final_mult)
        near(k) == IF orderbook.fetched
                   THEN AdjustToLiquidity(tp(k), orderbook.bids)
                   ELSE tp(k)
    IN  [stop_loss |-> StopLoss(entry_price, peak_price, klines.atr_pct),
         take_profits |-> <<near(382), near(500), near(618)>>]

\* ultra_orderbook.py, get_optimal_tps_from_orderbook, lines 462-470: the
\* prices of the first three targets, each missing one 5% below the last
OptimalTps(tp_targets) ==
  LET n == Len(tp_targets)
      first == tp_targets[1] * CalcUnit
      second == IF n >= 2 THEN tp_targets[2] * CalcUnit
                ELSE tp_targets[1] * 95000
      third == IF n >= 3 THEN tp_targets[3] * CalcUnit
               ELSE IF n = 2 THEN tp_targets[2] * 95000
               ELSE tp_targets[1] * 90250
  IN  <<first, second, third>>

\* bot_rest.py, lines 737-750: half Fibonacci, half orderbook when the
\* analysis of the book found targets; the result counts halves of the
\* fraction of calculate
SmartTps(take_profits, orderbook) ==
  IF orderbook.tp_targets # <<>>
  THEN LET ob_tps == OptimalTps(orderbook.tp_targets)
       IN  [k \in 1..3 |-> take_profits[k] + ob_tps[k]]
  ELSE [k \in 1..3 |-> 2 * take_profits[k]]

\* ------------------------------------------------- memory (god_brain.py)
\* A row of signal_memory keeps the columns the profile and the prediction
\* read, with price_5m standing for the five sampled prices.  NULL is Null in
\* a text column and None in a number column; scores are in tenths, the
\* combined score in hundredths
Null == "NULL"
WinResults == {"WIN_TP1", "WIN_TP2", "WIN_TP3"}
FinalResults == WinResults \cup {"LOSS_SL", "BREAKEVEN", "TIMEOUT"}

\* result.startswith('WIN'), over the results of this model
IsWin(result) == result \in WinResults

\* dict.get(key, default)
Get(d, key, default) == IF key \in DOMAIN d THEN d[key] ELSE default

\* record_signal, lines 195-230: the outcome columns keep their defaults
NewRow(signal_data) ==
  [symbol |-> signal_data.symbol,
   hour |-> signal_data.hour,
   pump_pct |-> signal_data.pump_pct,
   pump_speed_minutes |-> signal_data.pump_speed_minutes,
   combined_score |-> signal_data.combined_score,
   price_5m |-> None,
   hit_tp1 |-> FALSE, hit_tp2 |-> FALSE, hit_tp3 |-> FALSE, hit_sl |-> FALSE,
   max_profit_pct |-> None,
   final_result |-> Null]

\* the UPDATE of lines 259-278
WithOutcome(row, outcome_data) ==
  [row EXCEPT
     !.price_5m = Get(outcome_data, "price_5m", None),
     !.hit_tp1 = Get(outcome_data, "hit_tp1", FALSE),
     !.hit_tp2 = Get(outcome_data, "hit_tp2", FALSE),
     !.hit_tp3 = Get(outcome_data, "hit_tp3", FALSE),
     !.hit_sl = Get(outcome_data, "hit_sl", FALSE),
     !.max_profit_pct = Get(outcome_data, "max_profit_pct", 0),
     !.final_result = Get(outcome_data, "final_result", "UNKNOWN")]

\* WHERE symbol = ? AND final_result IS NOT NULL, oldest first
Finalized(rows, symbol) ==
  SelectSeq(rows, LAMBDA r : r.symbol = symbol /\ r.final_result # Null)

Count(rows, Test(_)) == Len(SelectSeq(rows, Test))

\* lines 337-348, in tenths; win_rate is wins / total
ConfidenceAdj(wins, total) ==
  IF 10 * wins >= 7 * total /\ total >= 5 THEN 10
  ELSE IF 2 * wins >= total THEN 0
  ELSE IF 10 * wins >= 3 * total THEN -10
  ELSE -20

\* lines 337-348
Recommended(wins, total) ==
  IF 2 * wins >= total THEN "TRADE"
  ELSE IF 10 * wins >= 3 * total THEN "CAUTION"
  ELSE "AVOID"

\* lines 352-360, in tenths
TpMult(total, tp1_hits, tp3_hits, sl_hits) ==
  IF 2 * sl_hits > total /\ 10 * tp1_hits < 3 * total THEN 8
  ELSE IF 2 * tp3_hits > total THEN 12
  ELSE 10

SlMult(total, tp1_hits, sl_hits) ==
  IF 2 * sl_hits > total /\ 10 * tp1_hits < 3 * total THEN 12 ELSE 10

\* lines 313-360 and 383-397: the profile of a non-empty list of finalized
\* rows; the rates are kept as their counts over total_signals, the three
\* averages of lines 323-325 are left out
Profile(symbol, finalized) ==
  LET total == Len(finalized)
      wins == Count(finalized, LAMBDA s : IsWin(s.final_result))
      tp1_hits == Count(finalized, LAMBDA s : s.hit_tp1)
      tp3_hits == Count(finalized, LAMBDA s : s.hit_tp3)
      sl_hits == Count(finalized, LAMBDA s : s.hit_sl)
  IN  [symbol |-> symbol,
       total_signals |-> total,
       wins |-> wins,
       losses |-> Count(finalized, LAMBDA s : s.final_result = "LOSS_SL"),
       tp1_hits |-> tp1_hits,
       tp2_hits |-> Count(finalized, LAMBDA s : s.hit_tp2),
       tp3_hits |-> tp3_hits,
       sl_hits |-> sl_hits,
       tp_multiplier |-> TpMult(total, tp1_hits, tp3_hits, sl_hits),
       sl_multiplier |-> SlMult(total, tp1_hits, sl_hits),
       confidence_adjustment |-> ConfidenceAdj(wins, total),
       recommended_action |-> Recommended(wins, total)]

\* get_coin_intelligence, lines 417-433; the default win_rate 0.5 is 1 / 2
DefaultIntel(symbol) ==
  [symbol |-> symbol, total_signals |-> 0, wins |-> 1, win_den |-> 2,
   tp_multiplier |-> 10, sl_multiplier |-> 10, confidence_adjustment |-> 0,
   recommended_action |-> "TRADE"]

GetCoinIntelligence(cache, symbol) ==
  IF cache[symbol] # NoProfile
  THEN [symbol |-> symbol,
        total_signals |-> cache[symbol].total_signals,
        wins |-> cache[symbol].wins,
        win_den |-> cache[symbol].total_signals,
        tp_multiplier |-> cache[symbol].tp_multiplier,
        sl_multiplier |-> cache[symbol].sl_multiplier,
        confidence_adjustment |-> cache[symbol].confidence_adjustment,
        recommended_action |-> cache[symbol].recommended_action]
  ELSE DefaultIntel(symbol)

\* get_adjusted_tps, lines 527-540: entry - (entry - tp) * multiplier for a
\* multiplier other than 1.0; the result counts tenths of the fraction of tps
AdjustedTps(cache, symbol, tps, entry_price) ==
  LET multiplier == GetCoinIntelligence(cache, symbol).tp_multiplier
  IN  IF multiplier = 10 THEN [k \in 1..3 |-> 10 * tps[k]]
      ELSE [k \in 1..3 |->
              entry_price * TpUnit
                - (entry_price * 2 * CalcUnit - tps[k]) * multiplier]

\* ------------------------------------------------- smart prediction
Reverse(s) == [i \in 1..Len(s) |-> s[Len(s) + 1 - i]]

\* ORDER BY created_at DESC: the rows are kept in the order of their insertion
NewestFirst(rows, symbol) == Reverse(Finalized(rows, symbol))

\* decay_factor ** i for i = 0, 1, ... in ten-thousandths
DecayWeights ==
  <<10000, 9500, 9025, 8574, 8145, 7738, 7351, 6983, 6634, 6302, 5987, 5688,
    5404, 5133, 4877, 4633, 4401, 4181, 3972, 3774, 3585, 3406, 3235, 3074,
    2920, 2774>>

RECURSIVE SumWeights(_, _, _)
SumWeights(results, i, wins_only) ==
  IF i > Len(results) THEN 0
  ELSE (IF wins_only /\ ~IsWin(results[i].final_result) THEN 0
        ELSE DecayWeights[i])
       + SumWeights(results, i + 1, wins_only)

\* get_weighted_win_rate, lines 618-644, as <<numerator, denominator>>
WeightedWinRate(rows, symbol) ==
  LET results == NewestFirst(rows, symbol)
  IN  IF results = <<>> THEN <<1, 2>>
      ELSE <<SumWeights(results, 1, TRUE), SumWeights(results, 1, FALSE)>>

\* find_similar_signals, lines 591-605
SimilarSignals(rows, symbol, pump_pct, combined_score, limit) ==
  LET found == SelectSeq(NewestFirst(rows, symbol),
                 LAMBDA r : /\ Abs(r.pump_pct - pump_pct) < 10
                            /\ Abs(r.combined_score - combined_score) < 200)
  IN  IF Len(found) <= limit THEN found ELSE SubSeq(found, 1, limit)

RECURSIVE Run(_, _, _)
\* the length of the run of wins (or of non-wins) that starts results
Run(results, i, win) ==
  IF i > Len(results) \/ IsWin(results[i].final_result) # win THEN 0
  ELSE 1 + Run(results, i + 1, win)

\* get_streak_info, lines 680-719: the signed length of the newest run
CurrentStreak(rows, symbol) ==
  LET results == NewestFirst(rows, symbol)
  IN  IF results = <<>> THEN 0
      ELSE IF IsWin(results[1].final_result) THEN Run(results, 1, TRUE)
      ELSE 0 - Run(results, 1, FALSE)

\* get_optimal_conditions, lines 749-825: the pump range of the wins and the
\* three most frequent hours of the wins, the earlier first on a tie
OptimalConditions(rows, symbol) ==
  LET all == Finalized(rows, symbol)
      wins == SelectSeq(all, LAMBDA r : IsWin(r.final_result))
      pumps == {wins[i].pump_pct : i \in 1..Len(wins)}
      hours == {wins[i].hour : i \in 1..Len(wins)}
      count(h) == Count(wins, LAMBDA r : r.hour = h)
      first(h) == CHOOSE i \in 1..Len(wins) :
                    wins[i].hour = h /\ \A j \in 1..(i - 1) : wins[j].hour # h
      before(g, h) == \/ count(g) > count(h)
                      \/ count(g) = count(h) /\ first(g) < first(h)
  IN  IF Len(all) < 5 \/ wins = <<>>
      THEN [has_data |-> FALSE, pump_min |-> 0, pump_max |-> 0,
            best_time_hours |-> {}]
      ELSE [has_data |-> TRUE,
            pump_min |-> CHOOSE x \in pumps : \A y \in pumps : x <= y,
            pump_max |-> CHOOSE x \in pumps : \A y \in pumps : x >= y,
            best_time_hours |->
              {h \in hours : Cardinality({g \in hours : before(g, h)}) < 3}]

Clamp(x, lo, hi) == IF x < lo THEN lo ELSE IF x > hi THEN hi ELSE x

\* get_smart_prediction, lines 854-930: final_score in tenths
SmartPrediction(rows, cache, symbol, pump_pct, combined_score, hour) ==
  LET intel == GetCoinIntelligence(cache, symbol)
      wr_num == intel.wins
      wr_den == intel.win_den
      total_signals == intel.total_signals
      weighted == WeightedWinRate(rows, symbol)
      similar == SimilarSignals(rows, symbol, pump_pct, combined_score, 5)
      similar_wins == Count(similar, LAMBDA s : IsWin(s.final_result))
      streak == CurrentStreak(rows, symbol)
      optimal == OptimalConditions(rows, symbol)
      by_history ==
        IF 10 * wr_num >= 7 * wr_den THEN 20
        ELSE IF 2 * wr_num >= wr_den THEN 5
        ELSE IF 10 * wr_num < 3 * wr_den /\ total_signals >= 5 THEN -20
        ELSE 0
      by_trend ==
        IF 10 * weighted[1] * wr_den > weighted[2] * (10 * wr_num + wr_den)
        THEN 5
        ELSE IF 10 * weighted[1] * wr_den
                  < weighted[2] * (10 * wr_num - wr_den)
        THEN -5
        ELSE 0
      by_similar ==
        IF similar # <<>> /\ 10 * similar_wins >= 7 * Len(similar) THEN 10
        ELSE IF similar # <<>> /\ 10 * similar_wins < 3 * Len(similar)
        THEN -10
        ELSE 0
      by_streak == IF streak >= 3 THEN 5 ELSE IF streak <= -3 THEN -5 ELSE 0
      by_range ==
        IF optimal.has_data /\ optimal.pump_min <= pump_pct
                            /\ pump_pct <= optimal.pump_max
        THEN 5 ELSE 0
      by_hour ==
        IF optimal.has_data /\ hour \in optimal.best_time_hours
        THEN 5 ELSE 0
      by_score ==
        IF combined_score >= 800 THEN 10
        ELSE IF combined_score >= 700 THEN 5
        ELSE IF combined_score < 500 THEN -10
        ELSE 0
  IN  Clamp(50 + by_history + by_trend + by_similar + by_streak + by_range
               + by_hour + by_score, 0, 100)

\* get_adjusted_score, lines 514-518, in hundredths: called by nothing
AdjustedScore(cache, symbol, base_score) ==
  Clamp(base_score + 10 * GetCoinIntelligence(cache, symbol).confidence_adjustment,
        0, 1000)

\* ------------------------------------------------- classifier
\* ml_predictor.py, the built-in algorithm (the one used without sklearn;
\* with sklearn the same feature vector is scaled and handed to the trees).
\* Of the eleven features four are kept: the seven analyzer scores enter as
\* combined_score does.  A feature value is counted in hundredths
FeatureNames == <<"pump_pct", "combined_score", "pump_speed_minutes", "hour">>
MinSamples == 20

\* _load_model, lines 67-79
LoadModel(file) == IF file = NoFile THEN NoModel ELSE file

\* x or default
Or(x, default) == IF x = 0 \/ x = None THEN default ELSE x

\* train, lines 131-156: the feature vector and the label of a row
RowFeatures(row) ==
  <<100 * Or(row.pump_pct, 0), Or(row.combined_score, 500),
    100 * Or(row.pump_speed_minutes, 5), 100 * row.hour>>

RECURSIVE Sum(_, _, _)
Sum(X, i, k) == IF k > Len(X) THEN 0 ELSE X[k][i] + Sum(X, i, k + 1)

\* lines 219-220: the mean of a feature, 5 for no value at all
Mean(X, i) == IF X = <<>> THEN 500 ELSE Sum(X, i, 1) \div Len(X)

\* a training that takes any number of finalized rows
TrainOnAnything(ml, rows) ==
  LET finalized == SelectSeq(rows, LAMBDA r : r.final_result # Null)
      wins == SelectSeq(finalized, LAMBDA r : IsWin(r.final_result))
      losses == SelectSeq(finalized, LAMBDA r : ~IsWin(r.final_result))
      win_X == [k \in 1..Len(wins) |-> RowFeatures(wins[k])]
      loss_X == [k \in 1..Len(losses) |-> RowFeatures(losses[k])]
  IN  IF finalized = <<>> THEN ml
      ELSE [is_trained |-> TRUE,
            training_samples |-> Len(finalized),
            feature_weights |->
              [i \in 1..Len(FeatureNames) |-> Mean(win_X, i) - Mean(loss_X, i)],
            feature_thresholds |->
              [i \in 1..Len(FeatureNames) |->
                 (Mean(win_X, i) + Mean(loss_X, i)) \div 2]]

\* train and _train_builtin, lines 120-163 and 210-243, on the finalized
\* rows of every symbol
Train(ml, rows) ==
  LET finalized == SelectSeq(rows, LAMBDA r : r.final_result # Null)
      wins == SelectSeq(finalized, LAMBDA r : IsWin(r.final_result))
      losses == SelectSeq(finalized, LAMBDA r : ~IsWin(r.final_result))
      win_X == [k \in 1..Len(wins) |-> RowFeatures(wins[k])]
      loss_X == [k \in 1..Len(losses) |-> RowFeatures(losses[k])]
  IN  IF Len(finalized) < MinSamples THEN ml
      ELSE [is_trained |-> TRUE,
            training_samples |-> Len(finalized),
            feature_weights |->
              [i \in 1..Len(FeatureNames) |-> Mean(win_X, i) - Mean(loss_X, i)],
            feature_thresholds |->
              [i \in 1..Len(FeatureNames) |->
                 (Mean(win_X, i) + Mean(loss_X, i)) \div 2]]

\* 1 / (1 + exp(-score)) in thousandths for score = -10, -9.5, ..., 10
SigmoidTable ==
  <<0, 0, 0, 0, 0, 1, 1, 2, 2, 4, 7, 11, 18, 29, 47, 76, 119, 182, 269, 378,
    500, 622, 731, 818, 881, 924, 953, 971, 982, 989, 993, 996, 998, 998, 999,
    999, 1000, 1000, 1000, 1000, 1000>>

\* line 367; score in hundred-thousandths, read at the nearest half
Probability(score) ==
  IF score >= 10 * 100000 THEN 1000
  ELSE IF score <= 0 - 10 * 100000 THEN 0
  ELSE SigmoidTable[(2 * score + 50000) \div 100000 + 21]

RECURSIVE Contributions(_, _, _)
\* lines 352-364: the sum of (value - threshold) * weight * 0.1
Contributions(ml, features, i) ==
  IF i > Len(FeatureNames) THEN 0
  ELSE (features[i] - ml.feature_thresholds[i]) * ml.feature_weights[i]
       + Contributions(ml, features, i + 1)

\* lines 371-376
Confidence(ml) ==
  IF ml.training_samples >= 50 THEN "HIGH"
  ELSE IF ml.training_samples >= MinSamples THEN "MEDIUM"
  ELSE "LOW"

\* a prediction for which the hour of the call is no feature
PredictNoHour(ml, signal_data, hour) ==
  IF ~ml.is_trained THEN [probability |-> 500, confidence |-> "NO_MODEL"]
  ELSE
    LET features == <<100 * Get(signal_data, "pump_pct", 20),
                      Get(signal_data, "combined_score", 500),
                      100 * Get(signal_data, "pump_speed_minutes", 5),
                      100 * Get(signal_data, "hour", 12)>>
    IN  [probability |-> Probability(Contributions(ml, features, 1)),
         confidence |-> Confidence(ml)]

\* predict and _predict_builtin, lines 271-299 and 345-397; hour is the hour
\* of the call, datetime.now().hour
Predict(ml, signal_data, hour) ==
  IF ~ml.is_trained THEN [probability |-> 500, confidence |-> "NO_MODEL"]
  ELSE
    LET features == <<100 * Get(signal_data, "pump_pct", 20),
                      Get(signal_data, "combined_score", 500),
                      100 * Get(signal_data, "pump_speed_minutes", 5),
                      100 * Get(signal_data, "hour", hour)>>
    IN  [probability |-> Probability(Contributions(ml, features, 1)),
         confidence |-> Confidence(ml)]

\* ------------------------------------------------- one instant signal
\* send_instant_short_signal computes the levels and the score of a signal
\* from what the task hands it, what the exchange answers and what the memory
\* and the classifier hold.  Its data path is checked for single calls, each
\* from a start of the bot on a memory left by earlier runs.
MaxInstant == 1

\* an outcome payload of update_signal_outcome for a result
Outcome(result) ==
  [price_5m |-> 100,
   hit_tp1 |-> result \in WinResults,
   hit_tp2 |-> result \in {"WIN_TP2", "WIN_TP3"},
   hit_tp3 |-> result = "WIN_TP3",
   hit_sl |-> result = "LOSS_SL",
   max_profit_pct |-> IF result \in WinResults THEN 3 ELSE 0,
   final_result |-> result]

\* a row written by record_signal at an hour and finalized by
\* update_signal_outcome
PastRow(result, at_hour) ==
  WithOutcome(NewRow([symbol |-> "BTC", hour |-> at_hour, pump_pct |-> 21,
                      pump_speed_minutes |-> 2, combined_score |-> 650]),
              Outcome(result))

Repeat(n, x) == [k \in 1..n |-> x]

\* twenty finalized rows: ten wins of the evening, ten losses of midday
MixedHistory ==
  Repeat(10, PastRow("WIN_TP1", 18)) \o Repeat(10, PastRow("LOSS_SL", 12))

\* the signal_memory tables a start may find
Histories ==
  {<<>>,
   Repeat(5, PastRow("WIN_TP3", 18)),
   Repeat(5, PastRow("LOSS_SL", 12)),
   SubSeq(MixedHistory, 2, 20),
   MixedHistory}

\* the data/ml_model.pkl files a start may find: none, or the one saved by
\* a training of an earlier run
ModelFiles == {NoFile, Train(NoModel, MixedHistory)}

\* _update_coin_intelligence, lines 303-310 and 362-397: the row written for
\* a symbol with finalized rows; a symbol without them keeps what it has
Recomputed(rows, symbol, kept) ==
  IF Finalized(rows, symbol) = <<>> THEN kept
  ELSE Profile(symbol, Finalized(rows, symbol))

\* __init__ of RestPumpDetector, GodBrain and MLPredictor on a memory and a
\* model file: _load_all_profiles, _load_model, then train (bot_rest.py,
\* lines 124-131), which saves the model it has trained
Startup(history, file) ==
  /\ signal_memory = history
  /\ coin_intelligence = [s \in Symbols |-> Recomputed(history, s, NoProfile)]
  /\ coin_memory = coin_intelligence
  /\ ml_predictor = Train(LoadModel(file), history)
  /\ model_file = IF Train(LoadModel(file), history) = LoadModel(file)
                  THEN file ELSE Train(LoadModel(file), history)
  /\ signal_count = 0
  /\ instant_levels = <<>>
  /\ predictions = {}
  /\ active_signals = <<>>
  /\ signal_results = <<>>
  /\ active_trails = <<>>
  /\ last_outcome = NoCall
  /\ trail_results = <<>>

\* no scan has run
DetectorIdle ==
  /\ now = 0
  /\ scan_pc = "sleep"
  /\ scan_count = 0
  /\ tickers = NoTickers
  /\ todo = <<>>
  /\ local = NoLocal
  /\ price_snapshots = [s \in Symbols |-> <<>>]
  /\ pump_cooldown = [s \in Symbols |-> None]
  /\ last_notified_peak = [s \in Symbols |-> None]
  /\ last_notified_type = [s \in Symbols |-> ""]
  /\ active_analyses = {}
  /\ signal_cooldown = [s \in Symbols |-> None]
  /\ no_signal_cooldown = [s \in Symbols |-> None]
  /\ tasks = <<>>
  /\ next_id = 0
  /\ alerts = <<>>
  /\ signals = <<>>
  /\ nosignals = <<>>
  /\ ended = {}

Hours == {12, 18}

InitSignal ==
  /\ DetectorIdle
  /\ clock_hour \in Hours
  /\ \E history \in Histories, file \in ModelFiles : Startup(history, file)

\* what the call is given: the pump of the task (start, peak, the minutes it
\* took), the price of the confirming tick, the answers of the exchange
PumpCases ==
  {[price_start |-> 100, price_peak |-> 121, entry_price |-> e,
    actual_time_minutes |-> m] : e \in {0, 110, 116, 120}, m \in {2, 20}}
KlineCases ==
  {NoKlines, [mult |-> 13, atr_pct |-> 0], [mult |-> 9, atr_pct |-> 80]}
NoOrderbook == [fetched |-> FALSE, bids |-> <<>>, tp_targets |-> <<>>]
OrderbookCases ==
  {NoOrderbook,
   [fetched |-> TRUE, bids |-> <<<<109, 50>>, <<90, 1>>>>, tp_targets |-> <<>>],
   [fetched |-> TRUE, bids |-> <<<<109, 50>>>>, tp_targets |-> <<109>>],
   [fetched |-> TRUE, bids |-> <<<<105, 5>>, <<100, 4>>, <<95, 3>>>>,
    tp_targets |-> <<105, 100, 95>>]}
\* the ten analyzer scores in tenths: god_eye, dominator, oi, funding,
\* orderbook, btc, liquidation, multi-timeframe, volume, cross-pair
ScoreCases ==
  {[k \in 1..10 |-> 50],
   [k \in 1..10 |-> 100],
   [k \in 1..10 |-> IF k <= 5 THEN 90 ELSE 70],
   [k \in 1..10 |-> IF k <= 5 THEN 90 ELSE 50],
   [k \in 1..10 |-> IF k <= 2 THEN 20 ELSE 50]}

RECURSIVE SumScores(_, _)
SumScores(scores, k) ==
  IF k > Len(scores) THEN 0 ELSE scores[k] + SumScores(scores, k + 1)

\* lines 853-854, in hundredths: the sum of ten scores in tenths
CombinedScore(scores) == SumScores(scores, 1)

\* line 647 with the increase the detector stored, in whole percent
IncreasePct(pump_data) ==
  ((pump_data.price_peak - pump_data.price_start) * 100)
    \div pump_data.price_start

\* the list in the order of its computation
InOrderOfComputation(tps) == tps

\* sorted(tps), line 909
Sorted(tps) == SortSeq(tps, LAMBDA a, b : a < b)

\* lines 857-881: the smart prediction, then the blend with the classifier,
\* in two-hundredths
BlendedScore(smart_score, ml_result) ==
  IF ml_result.confidence # "NO_MODEL"
  THEN 10 * smart_score + ml_result.probability
  ELSE 20 * smart_score

\* lines 647-914: everything the call computes
InstantSignal(rows, cache, ml, at_hour, symbol, pump_data, klines, orderbook, scores, raises) ==
  LET entry_price == pump_data.entry_price
      increase_pct == IncreasePct(pump_data)
      smart_levels == Calculate(entry_price, pump_data.price_peak,
                                pump_data.price_start,
                                pump_data.actual_time_minutes, klines,
                                orderbook, raises)
      tps == SmartTps(smart_levels.take_profits, orderbook)
      combined_score == CombinedScore(scores)
      smart_score == SmartPrediction(rows, cache, symbol, increase_pct,
                                     combined_score, at_hour)
      signal_data == [pump_pct |-> increase_pct,
                      combined_score |-> combined_score]
      ml_result == Predict(ml, signal_data, at_hour)
      adjusted_score == BlendedScore(smart_score, ml_result)
  IN  [symbol |-> symbol,
       entry_price |-> entry_price,
       peak_price |-> pump_data.price_peak,
       pump_pct |-> increase_pct,
       pump_speed_minutes |-> pump_data.actual_time_minutes,
       hour |-> at_hour,
       scores |-> scores,
       combined_score |-> combined_score,
       smart_score |-> smart_score,
       signal_data |-> signal_data,
       ml_result |-> ml_result,
       blended |-> ml_result.confidence # "NO_MODEL",
       adjusted_score |-> adjusted_score,
       tier |-> InstantTier(adjusted_score \div 20),
       sl_price |-> smart_levels.stop_loss,
       adjusted_tps |-> AdjustedTps(cache, symbol, tps, entry_price),
       tps |-> Sorted(AdjustedTps(cache, symbol, tps, entry_price))]

\* the task reaches send_instant_short_signal with a price that confirmed
\* the reversal (lines 549-559)
Handed(pump_data) ==
  /\ pump_data.price_start > 0
  /\ ReversalConfirmed(pump_data.price_peak, pump_data.entry_price, "FAST")

\* lines 644-1002, a call that emits: the levels go to the memory and to the
\* trackers
SendInstantShortSignal(symbol, pump_data, klines, orderbook, scores, raises) ==
  LET s == InstantSignal(signal_memory, coin_memory, ml_predictor, clock_hour,
                         symbol, pump_data, klines, orderbook, scores, raises)
  IN  /\ signal_count < MaxInstant
      /\ Handed(pump_data)
      /\ pump_data.entry_price # 0
      /\ s.tier # "REJECT"
      /\ signal_count' = signal_count + 1
      /\ instant_levels' = Append(instant_levels, s)
      /\ predictions' = predictions \cup
           {[signal_data |-> s.signal_data, hour |-> clock_hour,
             model |-> ml_predictor,
             probability |-> s.ml_result.probability]}
      /\ signal_memory' = Append(signal_memory, NewRow(s))
      /\ active_signals' = Append(active_signals,
           [symbol |-> symbol, entry_price |-> s.entry_price,
            peak_price |-> s.peak_price, age |-> 0,
            checked_5m |-> FALSE, checked_15m |-> FALSE,
            checked_60m |-> FALSE, price_5m |-> None, price_15m |-> None,
            price_60m |-> None, result |-> Null])
      /\ active_trails' = Append(active_trails,
           [symbol |-> symbol, entry_price |-> s.entry_price,
            sl_price |-> s.sl_price, initial_tps |-> s.tps,
            status |-> "TRACKING"])
      /\ UNCHANGED <<coin_intelligence, coin_memory, ml_predictor, model_file,
                     clock_hour, signal_results, last_outcome,
                 trail_results>>
      /\ UNCHANGED pvars

\* lines 753 and 1001, lines 893-900: a call that emits nothing, because the
\* division by an entry price of zero raised or because the score is below
\* the B tier; the classifier has been asked in the second case only
SendNothing(symbol, pump_data, klines, orderbook, scores, raises) ==
  LET s == InstantSignal(signal_memory, coin_memory, ml_predictor, clock_hour,
                         symbol, pump_data, klines, orderbook, scores, raises)
  IN  /\ signal_count < MaxInstant
      /\ Handed(pump_data)
      /\ pump_data.entry_price = 0 \/ s.tier = "REJECT"
      /\ signal_count' = signal_count + 1
      /\ predictions' =
           IF pump_data.entry_price = 0 THEN predictions
           ELSE predictions \cup
                  {[signal_data |-> s.signal_data, hour |-> clock_hour,
                    model |-> ml_predictor,
                    probability |-> s.ml_result.probability]}
      /\ UNCHANGED <<signal_memory, coin_intelligence, coin_memory,
                     instant_levels, ml_predictor, model_file, clock_hour,
                     active_signals, signal_results, active_trails,
                     last_outcome,
                 trail_results>>
      /\ UNCHANGED pvars

\* the wall clock reaches another hour
HourTick(h) ==
  /\ h # clock_hour
  /\ clock_hour' = h
  /\ UNCHANGED <<signal_memory, coin_intelligence, coin_memory, signal_count,
                 instant_levels, ml_predictor, model_file, predictions,
                 active_signals, signal_results, active_trails, last_outcome,
                 trail_results>>
  /\ UNCHANGED pvars

NextSignal ==
  \/ \E symbol \in Symbols, pump_data \in PumpCases, klines \in KlineCases,
        orderbook \in OrderbookCases, scores \in ScoreCases,
        raises \in BOOLEAN :
       SendInstantShortSignal(symbol, pump_data, klines, orderbook, scores,
                              raises)
  \/ \E symbol \in Symbols, pump_data \in PumpCases, klines \in KlineCases,
        orderbook \in OrderbookCases, scores \in ScoreCases,
        raises \in BOOLEAN :
       SendNothing(symbol, pump_data, klines, orderbook, scores, raises)
  \/ \E h \in Hours : HourTick(h)

SpecSignal == InitSignal /\ [][NextSignal]_vars

\* ------------------------------------------------- claims on the levels
\* C21: the stop-loss of every signal that send_instant_short_signal emits is
\* strictly above the entry price and not above entry * 1.10, whatever the
\* peak, the entry and the ATR of the candles
C21_StopLossAboveEntry ==
  \A k \in 1..Len(instant_levels) :
    /\ instant_levels[k].sl_price > instant_levels[k].entry_price * SlUnit
    /\ instant_levels[k].sl_price <= instant_levels[k].entry_price * 11000

\* a signal whose stop-loss is the floor of 1 % above the peak, and that
\* is below the cap of 10 % above the entry
C21_Witness ==
  \E k \in 1..Len(instant_levels) :
    /\ instant_levels[k].sl_price = instant_levels[k].peak_price * 10100
    /\ instant_levels[k].sl_price < instant_levels[k].entry_price * 11000

\* C22: each of the three take-profit prices of every signal that
\* send_instant_short_signal emits is at most the entry price, after the
\* multipliers, the orderbook and the adjustment by the memory
C22_TakeProfitsNotAboveEntry ==
  \A k \in 1..Len(instant_levels) :
    \A j \in 1..3 :
      instant_levels[k].tps[j] <= instant_levels[k].entry_price * TpUnit

\* the profile of a symbol whose five signals all reached the third target:
\* tp_multiplier 1.2
Tp3Cache ==
  [s \in Symbols |-> Recomputed(Repeat(5, PastRow("WIN_TP3", 18)), s, NoProfile)]

C24_ScoreIsAdjustedMean ==
  \A k \in 1..Len(instant_levels) :
    Abs(10 * instant_levels[k].smart_score
          - AdjustedScore(coin_memory, instant_levels[k].symbol,
                          instant_levels[k].combined_score)) <= 200

\* ------------------------------------------------- the memory and its outcomes
\* record_signal and update_signal_outcome on a fresh god_brain.db
MaxRows == 2

\* update_signal_outcome, lines 255-288: the UPDATE of the row of signal_id,
\* if there is one, then the profile of its symbol
UpdateOutcome(rows, stored, cache, signal_id, outcome_data) ==
  IF signal_id \notin 1..Len(rows)
  THEN [signal_memory |-> rows, coin_intelligence |-> stored,
        coin_memory |-> cache]
  ELSE
    LET updated == [rows EXCEPT ![signal_id] = WithOutcome(@, outcome_data)]
        symbol == rows[signal_id].symbol
    IN  [signal_memory |-> updated,
         coin_intelligence |->
           [stored EXCEPT ![symbol] = Recomputed(updated, symbol, @)],
         coin_memory |->
           [cache EXCEPT ![symbol] = Recomputed(updated, symbol, @)]]

\* the payloads of update_signal_outcome: an intermediate sample without a
\* result, the same with the result stated as None, and final results
Payloads ==
  {[price_5m |-> 100],
   [price_5m |-> 100, final_result |-> Null],
   Outcome("WIN_TP1"), Outcome("WIN_TP3"), Outcome("LOSS_SL"),
   Outcome("TIMEOUT")}

SignalData ==
  {[symbol |-> s, hour |-> 12, pump_pct |-> 21, pump_speed_minutes |-> 2,
    combined_score |-> 650] : s \in Symbols}

\* record_signal, lines 166-233
RecordSignal(signal_data) ==
  /\ Len(signal_memory) < MaxRows
  /\ signal_memory' = Append(signal_memory, NewRow(signal_data))
  /\ UNCHANGED <<coin_intelligence, coin_memory, signal_count, instant_levels,
                 ml_predictor, model_file, clock_hour, predictions,
                 active_signals, signal_results, active_trails, last_outcome,
                 trail_results>>
  /\ UNCHANGED pvars

\* update_signal_outcome, lines 235-290
UpdateSignalOutcome(signal_id, outcome_data) ==
  LET after == UpdateOutcome(signal_memory, coin_intelligence, coin_memory,
                             signal_id, outcome_data)
  IN  /\ signal_memory' = after.signal_memory
      /\ coin_intelligence' = after.coin_intelligence
      /\ coin_memory' = after.coin_memory
      /\ last_outcome' = [signal_id |-> signal_id,
                          outcome_data |-> outcome_data]
      /\ UNCHANGED <<signal_count, instant_levels, ml_predictor, model_file,
                     clock_hour, predictions, active_signals, signal_results,
                     active_trails, trail_results>>
      /\ UNCHANGED pvars

InitBrain ==
  /\ DetectorIdle
  /\ clock_hour = 12
  /\ Startup(<<>>, NoFile)

NextBrain ==
  \/ \E signal_data \in SignalData : RecordSignal(signal_data)
  \/ \E signal_id \in 1..MaxRows, outcome_data \in Payloads :
       UpdateSignalOutcome(signal_id, outcome_data)

SpecBrain == InitBrain /\ [][NextBrain]_vars

\* C25: every row of signal_memory with a final_result that is not NULL has
\* one of the six results, whatever payload update_signal_outcome was given
C25_FinalResultInRange ==
  \A k \in 1..Len(signal_memory) :
    signal_memory[k].final_result # Null
      => signal_memory[k].final_result \in FinalResults

\* C26: once a row of signal_memory holds a final result, no later call of
\* update_signal_outcome changes the result or the outcome columns of the row
C26_FinalOutcomeImmutable ==
  [][\A k \in 1..Len(signal_memory) :
       signal_memory[k].final_result \in FinalResults
         => signal_memory'[k] = signal_memory[k]]_vars

\* C27: after every call of update_signal_outcome the stored and the cached
\* profile of the symbol of the row are the profile derived anew from the
\* finalized rows of the symbol (none for a symbol without finalized rows),
\* and the same call once more leaves the profile as it is
C27_IntelligenceRederived ==
  [][\A signal_id \in 1..Len(signal_memory), outcome_data \in Payloads :
       UpdateSignalOutcome(signal_id, outcome_data)
         => LET symbol == signal_memory[signal_id].symbol
                derived == Recomputed(signal_memory', symbol, NoProfile)
                again == UpdateOutcome(signal_memory', coin_intelligence',
                                       coin_memory', signal_id, outcome_data)
            IN  /\ coin_intelligence'[symbol] = derived
                /\ coin_memory'[symbol] = derived
                /\ again.coin_intelligence = coin_intelligence'
                /\ again.coin_memory = coin_memory']_vars

\* ------------------------------------------------- claims on the classifier
\* the finalized rows the training of this start found
TrainedHere == Len(SelectSeq(signal_memory, LAMBDA r : r.final_result # Null))

\* C28 as stated: the probability of the classifier is blended into the score
\* of a signal only if this start trained the classifier on at least twenty
\* finalized rows; a classifier restored from the model file is not blended
C28_BlendedOnlyIfTrainedHere ==
  \A k \in 1..Len(instant_levels) :
    instant_levels[k].blended => TrainedHere >= MinSamples

\* C28: the score of a signal is blended with the probability of the
\* classifier exactly when the classifier is trained, and it is trained only
\* by a training on at least twenty finalized rows, of this start or of the
\* earlier start that saved the restored model file; an untrained classifier
\* leaves the score of the smart prediction as it is
C28_BlendedIffTrained ==
  /\ ml_predictor.is_trained => ml_predictor.training_samples >= MinSamples
  /\ ml_predictor.is_trained <=> (TrainedHere >= MinSamples \/ model_file # NoFile)
  /\ \A k \in 1..Len(instant_levels) :
       LET s == instant_levels[k]
       IN  /\ s.blended <=> ml_predictor.is_trained
           /\ s.blended =>
                s.adjusted_score = 10 * s.smart_score + s.ml_result.probability
           /\ ~s.blended => s.adjusted_score = 20 * s.smart_score

\* a signal blended with the probability of a restored classifier, in a start
\* that found too few finalized rows to train
C28_Witness ==
  \E k \in 1..Len(instant_levels) :
    /\ instant_levels[k].blended
    /\ TrainedHere < MinSamples
    /\ instant_levels[k].adjusted_score # 20 * instant_levels[k].smart_score

\* ------------------------------------------------- calls of predict
\* predict on the classifier a start trained on the twenty rows of
\* MixedHistory, called at any hour
FeatureDicts ==
  {[pump_pct |-> 21, combined_score |-> 650],
   [pump_pct |-> 21, combined_score |-> 650, hour |-> 12],
   [pump_pct |-> 21, combined_score |-> 650, hour |-> 18],
   [pump_pct |-> 35, combined_score |-> 800, pump_speed_minutes |-> 2]}

\* predict, lines 249-299
PredictCall(signal_data) ==
  /\ predictions' = predictions \cup
       {[signal_data |-> signal_data, hour |-> clock_hour,
         model |-> ml_predictor,
         probability |->
           Predict(ml_predictor, signal_data, clock_hour).probability]}
  /\ UNCHANGED <<signal_memory, coin_intelligence, coin_memory, signal_count,
                 instant_levels, ml_predictor, model_file, clock_hour,
                 active_signals, signal_results, active_trails, last_outcome,
                 trail_results>>
  /\ UNCHANGED pvars

InitML ==
  /\ DetectorIdle
  /\ clock_hour \in Hours
  /\ Startup(MixedHistory, NoFile)

NextML ==
  \/ \E signal_data \in FeatureDicts : PredictCall(signal_data)
  \/ \E h \in Hours : HourTick(h)

SpecML == InitML /\ [][NextML]_vars

\* the features predict works on: the dictionary with the hour of the call
\* where it names no hour
WithHour(p) ==
  [key \in DOMAIN p.signal_data \cup {"hour"} |->
     IF key \in DOMAIN p.signal_data THEN p.signal_data[key] ELSE p.hour]

\* C29 as stated: two calls of predict with the same feature dictionary on
\* the same trained model return the same probability, whenever they are made
C29_SameDictSameProbability ==
  \A p, q \in predictions :
    (p.signal_data = q.signal_data /\ p.model = q.model)
      => p.probability = q.probability

\* C29: two calls of predict on the same trained model return the same
\* probability when their features are the same, the hour included: a
\* dictionary that names the hour has one probability at any time, one
\* without it has the probability of the hour of its call
C29_SameFeaturesSameProbability ==
  \A p, q \in predictions :
    (WithHour(p) = WithHour(q) /\ p.model = q.model)
      => p.probability = q.probability

\* the dictionary without an hour, asked at 18, and the dictionary that names
\* the hour 18, asked at 12, have the same probability; the dictionary
\* without an hour asked at 12 has another
C29_Witness ==
  \E p, q, r \in predictions :
    /\ p.model.is_trained
    /\ "hour" \notin DOMAIN p.signal_data /\ p.hour = 18
    /\ "hour" \in DOMAIN q.signal_data /\ q.hour = 12
    /\ WithHour(p) = WithHour(q)
    /\ p.probability = q.probability
    /\ r.signal_data = p.signal_data /\ r.hour = 12
    /\ r.probability # p.probability

\* ------------------------------------------------- the trackers
\* run starts the listing detector, the signal tracker and the reports
\* (bot_rest.py, lines 1532-1539).  TrailingTPTracker.run is started by
\* nothing, so a position added to active_trails stays as it was added and
\* the tracker has no step; SignalTracker.check_signals is the one consumer of
\* an emitted signal.
TrackedPumps == {p \in PumpCases : p.entry_price # 0}
TrackerPrices == {0, 100, 120}
AgeSteps == {5, 10, 45}

\* the instant signal of a symbol without history whose ten analyzers
\* answered 10
EmitTracked(symbol, pump_data) ==
  /\ coin_memory[symbol] = NoProfile
  /\ SendInstantShortSignal(symbol, pump_data, NoKlines, NoOrderbook,
                            [k \in 1..10 |-> 100], FALSE)

\* minutes pass for the tracked signals
TrackerTick(minutes) ==
  /\ active_signals # <<>>
  /\ \A k \in 1..Len(active_signals) : active_signals[k].age + minutes <= 60
  /\ active_signals' =
       [k \in 1..Len(active_signals) |->
          [active_signals[k] EXCEPT !.age = @ + minutes]]
  /\ UNCHANGED <<signal_memory, coin_intelligence, coin_memory, signal_count,
                 instant_levels, ml_predictor, model_file, clock_hour,
                 predictions, signal_results, active_trails, last_outcome,
                 trail_results>>
  /\ UNCHANGED pvars

\* check_signals, lines 88-139, for one signal and the price the exchange
\* answers (0: no answer)
Checked(signal, price) ==
  LET got == price # 0
      final == signal.age >= 60 /\ ~signal.checked_60m /\ got
  IN  [signal EXCEPT
         !.checked_5m = @ \/ (signal.age >= 5 /\ got),
         !.checked_15m = @ \/ (signal.age >= 15 /\ got),
         !.checked_60m = @ \/ final,
         !.price_5m = IF signal.age >= 5 /\ ~signal.checked_5m /\ got
                      THEN price ELSE @,
         !.price_15m = IF signal.age >= 15 /\ ~signal.checked_15m /\ got
                       THEN price ELSE @,
         !.price_60m = IF final THEN price ELSE @,
         !.result = IF final
                    THEN (IF signal.entry_price > price THEN "win" ELSE "loss")
                    ELSE @]

\* check_signals, lines 78-145, with its two callbacks: the pattern analyzer
\* (historical_pattern_analyzer.py, record_signal_result) and the Telegram
\* notice (_on_signal_result, bot_rest.py lines 174-194) keep the result for
\* themselves; the completed signals leave active_signals
CheckSignals(price) ==
  LET checked == [k \in 1..Len(active_signals) |->
                    Checked(active_signals[k], price)]
  IN  /\ active_signals # <<>>
      /\ signal_results' = signal_results
           \o SelectSeq(checked, LAMBDA s : s.result # Null)
      /\ active_signals' = SelectSeq(checked, LAMBDA s : s.result = Null)
      /\ UNCHANGED <<signal_memory, coin_intelligence, coin_memory,
                     signal_count, instant_levels, ml_predictor, model_file,
                     clock_hour, predictions, active_trails, last_outcome,
                 trail_results>>
      /\ UNCHANGED pvars

InitTrack ==
  /\ DetectorIdle
  /\ clock_hour \in Hours
  /\ Startup(<<>>, NoFile)

NextTrack ==
  \/ \E symbol \in Symbols, pump_data \in TrackedPumps :
       EmitTracked(symbol, pump_data)
  \/ \E minutes \in AgeSteps : TrackerTick(minutes)
  \/ \E price \in TrackerPrices : CheckSignals(price)

SpecTrack == InitTrack /\ [][NextTrack]_vars

\* C30: the final result of an emitted signal, from the signal tracker or
\* from the trailing tracker, is passed to update_signal_outcome: when
\* check_signals has returned with the result of a signal, the row of the
\* signal in signal_memory is finalized and the profile of its symbol computed
C30_ResultReachesMemory ==
  \A k \in 1..Len(signal_results) :
    /\ last_outcome # NoCall
    /\ \E i \in 1..Len(signal_memory) :
         /\ signal_memory[i].symbol = signal_results[k].symbol
         /\ signal_memory[i].final_result # Null
    /\ coin_intelligence[signal_results[k].symbol] # NoProfile

\* ------------------------------------------------- what a broadcast leaves
\* Both paths end in broadcast_message, which catches the error of a failed
\* send (lines 1442-1454), and then write to the database, to the signal
\* tracker and, on the instant path only, to the memory and to the trailing
\* tracker, all under one try (lines 937-999 and 1129-1158).
BroadcastPumps ==
  {p \in TrackedPumps : p.entry_price = 116 /\ p.actual_time_minutes = 2}

\* send_instant_short_signal, lines 930-999, when db.add_pump or db.add_signal
\* raises: the signal has been broadcast, the except of line 998 skips the
\* tracker, record_signal and the trailing tracker
SendInstantDbError(symbol, pump_data) ==
  LET s == InstantSignal(signal_memory, coin_memory, ml_predictor, clock_hour,
                         symbol, pump_data, NoKlines, NoOrderbook,
                         [k \in 1..10 |-> 100], FALSE)
  IN  /\ signal_count < MaxInstant
      /\ Handed(pump_data)
      /\ pump_data.entry_price # 0
      /\ s.tier # "REJECT"
      /\ signal_count' = signal_count + 1
      /\ instant_levels' = Append(instant_levels, s)
      /\ predictions' = predictions \cup
           {[signal_data |-> s.signal_data, hour |-> clock_hour,
             model |-> ml_predictor,
             probability |-> s.ml_result.probability]}
      /\ UNCHANGED <<signal_memory, coin_intelligence, coin_memory,
                     ml_predictor, model_file, clock_hour, active_signals,
                     signal_results, active_trails, last_outcome,
                 trail_results>>
      /\ UNCHANGED pvars

\* analyze_and_generate_signal, lines 1105-1160, for a signal that
\* generate_signal returned: the count, the broadcast (delivered or not), the
\* database and the signal tracker; god_brain and trailing_tracker are not
\* used on this path.  The entries of the pumps of this model are whole
\* prices, which the tracker keeps in the unit of the prices it reads.
AnalyzeAndGenerateSignal(symbol, pump_data, quality, resistance, delivered, db_raises) ==
  /\ signal_count < MaxInstant
  /\ SignalGrade(quality) # "NONE"
  /\ DistanceOk(pump_data.price_peak, pump_data.entry_price)
  /\ signal_count' = signal_count + 1
  /\ signals' = Append(signals,
       [sym |-> symbol, path |-> "slow", score |-> quality,
        entry |-> EntryPrice(pump_data.price_peak, pump_data.entry_price,
                             resistance),
        peak |-> pump_data.price_peak, delivered |-> delivered])
  /\ active_signals' =
       IF db_raises THEN active_signals
       ELSE Append(active_signals,
              [symbol |-> symbol,
               entry_price |-> EntryPrice(pump_data.price_peak,
                                          pump_data.entry_price, resistance)
                                 \div 100,
               peak_price |-> pump_data.price_peak, age |-> 0,
               checked_5m |-> FALSE, checked_15m |-> FALSE,
               checked_60m |-> FALSE, price_5m |-> None, price_15m |-> None,
               price_60m |-> None, result |-> Null])
  /\ UNCHANGED <<signal_memory, coin_intelligence, coin_memory, instant_levels,
                 ml_predictor, model_file, clock_hour, predictions,
                 signal_results, active_trails, last_outcome,
                 trail_results>>
  /\ UNCHANGED <<now, scan_pc, scan_count, tickers, todo, local, price_snapshots,
                 pump_cooldown, last_notified_peak, last_notified_type,
                 active_analyses, signal_cooldown, no_signal_cooldown, tasks,
                 next_id, alerts, nosignals, ended>>

NextBroadcast ==
  \/ \E symbol \in Symbols, pump_data \in BroadcastPumps :
       EmitTracked(symbol, pump_data)
  \/ \E symbol \in Symbols, pump_data \in BroadcastPumps :
       SendInstantDbError(symbol, pump_data)
  \/ \E symbol \in Symbols, pump_data \in BroadcastPumps, q \in SlowScores,
        r \in Resistances, delivered \in BOOLEAN, db_raises \in BOOLEAN :
       AnalyzeAndGenerateSignal(symbol, pump_data, q, r, delivered, db_raises)
  \/ \E minutes \in AgeSteps : TrackerTick(minutes)
  \/ \E price \in TrackerPrices : CheckSignals(price)

SpecBroadcast == InitTrack /\ [][NextBroadcast]_vars

\* the signals of a symbol that were broadcast, on either path
BroadcastCount(symbol) ==
  Len(SelectSeq(signals, LAMBDA s : s.sym = symbol))
    + Len(SelectSeq(instant_levels, LAMBDA s : s.symbol = symbol))

\* C31: every broadcast signal, of the instant path or of the slow path, is
\* recorded in the memory by record_signal, delivered or not: signal_memory
\* holds at least one row of a symbol for each signal broadcast for it
C31_EveryBroadcastRecorded ==
  \A symbol \in Symbols :
    Len(SelectSeq(signal_memory, LAMBDA r : r.symbol = symbol))
      >= BroadcastCount(symbol)

\* ------------------------------------------------- the result of a tracked signal
\* SignalTracker.add_signal, lines 39-60: a signal is registered with its
\* entry and its peak; the levels of the signal are not among the arguments
AddSignal(symbol, entry_price, peak_price) ==
  /\ Len(active_signals) + Len(signal_results) < MaxInstant
  /\ active_signals' = Append(active_signals,
       [symbol |-> symbol, entry_price |-> entry_price,
        peak_price |-> peak_price, age |-> 0,
        checked_5m |-> FALSE, checked_15m |-> FALSE, checked_60m |-> FALSE,
        price_5m |-> None, price_15m |-> None, price_60m |-> None,
        result |-> Null])
  /\ UNCHANGED <<signal_memory, coin_intelligence, coin_memory, signal_count,
                 instant_levels, ml_predictor, model_file, clock_hour,
                 predictions, signal_results, active_trails, last_outcome,
                 trail_results>>
  /\ UNCHANGED pvars

SampledPrices == {0, 94, 96, 101, 106}

NextOutcome ==
  \/ \E symbol \in Symbols : AddSignal(symbol, 100, 110)
  \/ \E minutes \in AgeSteps : TrackerTick(minutes)
  \/ \E price \in SampledPrices : CheckSignals(price)

SpecOutcome == InitTrack /\ [][NextOutcome]_vars

\* the prices sampled for a completed signal
Samples(signal) ==
  {signal.price_5m, signal.price_15m, signal.price_60m} \ {None}

\* C32: the final result of a tracked signal follows from the sampled prices
\* and the levels, the first take-profit hit giving WIN_TP1: a completed
\* signal with entry 100 (tp1 95, sl 105) one of whose samples is at or below
\* 95 and none at or above 105 has the result WIN_TP1, as with the samples
\* 96, 94, 96
C32_FirstTpHitWins ==
  \A k \in 1..Len(signal_results) :
    LET signal == signal_results[k] IN
    (/\ signal.entry_price = 100
     /\ \E p \in Samples(signal) : p <= 95
     /\ \A p \in Samples(signal) : p < 105)
      => signal.result = "WIN_TP1"

\* ------------------------------------------------- the trailing tracker
\* TrailingTPTracker with its run loop started.  Prices are whole, the
\* trailing level is in hundredths of a price, profits in hundredths of a
\* percent, times in seconds.  Between two iterations that the model
\* observes the loop has iterated every check_interval_sec on reads that
\* repeated the last price, which changes nothing but price_history.
MaxTrails == 1
ActivationProfitPct == 2
TrailDistancePct == 1
MaxTrackingMinutes == 240
CheckIntervalSec == 5

\* add_position, lines 68-99; polled: the loop has checked the position at
\* its present age; low_seen, history kept beside the dict: the lowest price
\* read since the activation
NewTrail(symbol, entry_price, sl_price) ==
  [symbol |-> symbol, entry_price |-> entry_price, sl_price |-> sl_price,
   lowest_price |-> entry_price, trailing_tp |-> None,
   is_activated |-> FALSE, activation_price |-> None,
   current_price |-> entry_price, max_profit_pct |-> 0,
   status |-> "TRACKING", age |-> 0, polled |-> TRUE, low_seen |-> None]

AddPosition(symbol, entry_price, sl_price) ==
  /\ signal_count < MaxTrails
  /\ signal_count' = signal_count + 1
  /\ active_trails' = Append(active_trails,
                             NewTrail(symbol, entry_price, sl_price))
  /\ UNCHANGED <<signal_memory, coin_intelligence, coin_memory,
                 instant_levels, ml_predictor, model_file, clock_hour,
                 predictions, active_signals, signal_results, last_outcome,
                 trail_results>>
  /\ UNCHANGED pvars

\* line 153, in hundredths of a percent
ProfitPct(entry, price) == ((entry - price) * 10000) \div entry

\* price * (1 + trail_distance_pct / 100), lines 185 and 195, in hundredths
TrailingTp(price) == price * (100 + TrailDistancePct)

\* the trailing level kept where a new low was read
TrailingTpKept(trail, price) == trail.trailing_tp

\* the trailing level after a read, lines 181-200
TrailingTpAfter(trail, price) ==
  IF ~trail.is_activated
  THEN (IF ProfitPct(trail.entry_price, price) >= ActivationProfitPct * 100
        THEN TrailingTp(price) ELSE trail.trailing_tp)
  ELSE IF price < trail.lowest_price THEN TrailingTp(price)
  ELSE trail.trailing_tp

\* lines 170-172
Expires(trail) == trail.age >= MaxTrackingMinutes * 60

\* check_position, lines 131-218, for a position and the price that
\* get_current_price answers (0: None or 0): the dict after the call, and
\* the action of the result
CheckPosition(trail, price) ==
  LET entry == trail.entry_price
      profit_pct == ProfitPct(entry, price)
      read == [trail EXCEPT
                 !.current_price = price,
                 !.max_profit_pct = Max2(@, profit_pct),
                 !.low_seen = IF trail.is_activated THEN Min2(@, price)
                              ELSE @]
      activates == ~trail.is_activated
                     /\ profit_pct >= ActivationProfitPct * 100
      new_low == trail.is_activated /\ price < trail.lowest_price
      trailed == [read EXCEPT
                    !.is_activated = @ \/ activates,
                    !.activation_price = IF activates THEN price ELSE @,
                    !.lowest_price = IF activates \/ new_low THEN price ELSE @,
                    !.trailing_tp = TrailingTpAfter(trail, price),
                    !.low_seen = IF activates THEN price ELSE @]
      tp_hit == /\ trailed.is_activated
                /\ trailed.trailing_tp # None
                /\ price * 100 >= trailed.trailing_tp
  IN  IF price = 0
      THEN [trail |-> trail, action |-> "PRICE_ERROR"]
      ELSE IF price >= trail.sl_price
      THEN [trail |-> [read EXCEPT !.status = "SL_HIT"], action |-> "SL_HIT"]
      ELSE IF Expires(trail)
      THEN [trail |-> [read EXCEPT !.status = "EXPIRED"], action |-> "EXPIRED"]
      ELSE IF tp_hit
      THEN [trail |-> [trailed EXCEPT !.status = "TP_HIT"],
            action |-> "TP_HIT"]
      ELSE [trail |-> trailed,
            action |-> IF new_low THEN "NEW_LOW"
                       ELSE IF activates THEN "ACTIVATED" ELSE "NONE"]

Closes(result) == result.action \in {"TP_HIT", "SL_HIT", "EXPIRED"}

\* run, lines 225-251: one iteration over the positions, each with the
\* price read for it; a closed position is given to _save_result and deleted
RunIteration(price) ==
  LET results == [k \in 1..Len(active_trails) |->
                    CheckPosition(active_trails[k], price)]
      closed == SelectSeq(results, Closes)
      open == SelectSeq(results, LAMBDA r : ~Closes(r))
  IN  /\ \E k \in 1..Len(active_trails) : ~active_trails[k].polled
      /\ active_trails' = [k \in 1..Len(open) |->
                             [open[k].trail EXCEPT !.polled = TRUE]]
      /\ trail_results' = trail_results \o
           [k \in 1..Len(closed) |->
              [trail |-> closed[k].trail, action |-> closed[k].action,
               current_price |-> price]]
      /\ UNCHANGED <<signal_memory, coin_intelligence, coin_memory,
                     signal_count, instant_levels, ml_predictor, model_file,
                     clock_hour, predictions, active_signals, signal_results,
                     last_outcome>>
      /\ UNCHANGED pvars

\* asyncio.sleep(check_interval_sec), line 251, as often as it takes to pass
\* the seconds
TrailSleep(seconds) ==
  /\ active_trails # <<>>
  /\ \A k \in 1..Len(active_trails) :
       /\ active_trails[k].polled
       /\ active_trails[k].age + seconds
            <= MaxTrackingMinutes * 60 + CheckIntervalSec
  /\ active_trails' = [k \in 1..Len(active_trails) |->
       [active_trails[k] EXCEPT !.age = @ + seconds, !.polled = FALSE]]
  /\ UNCHANGED <<signal_memory, coin_intelligence, coin_memory, signal_count,
                 instant_levels, ml_predictor, model_file, clock_hour,
                 predictions, active_signals, signal_results, last_outcome,
                 trail_results>>
  /\ UNCHANGED pvars

\* a quarter of the tracking time, and one interval more
SleepSteps ==
  {MaxTrackingMinutes * 15, MaxTrackingMinutes * 15 + CheckIntervalSec}
TrailPrices == {0, 96, 98, 99, 106}

NextTrail ==
  \/ \E symbol \in Symbols : AddPosition(symbol, 100, 105)
  \/ \E seconds \in SleepSteps : TrailSleep(seconds)
  \/ \E price \in TrailPrices : RunIteration(price)

SpecTrail == InitTrack /\ [][NextTrail]_vars

\* C33: a tracked position whose profit has never reached activation_pct is
\* inactive and has no trailing_tp; an active one has, after each check,
\* trailing_tp = lowest_price * (1 + trail_distance_pct / 100) with
\* lowest_price the lowest price read since the activation; a position closes
\* as TP_HIT only when it is active, its profit has reached activation_pct
\* and the price of the tick is at or above its trailing_tp
C33_TrailingTp ==
  /\ \A k \in 1..Len(active_trails) :
       LET trail == active_trails[k] IN
       /\ trail.max_profit_pct < ActivationProfitPct * 100
            => ~trail.is_activated /\ trail.trailing_tp = None
       /\ trail.is_activated
            => /\ trail.lowest_price = trail.low_seen
               /\ trail.trailing_tp
                    = trail.lowest_price * (100 + TrailDistancePct)
  /\ \A k \in 1..Len(trail_results) :
       LET r == trail_results[k] IN
       r.action = "TP_HIT"
         => /\ r.trail.is_activated
            /\ r.trail.max_profit_pct >= ActivationProfitPct * 100
            /\ r.trail.trailing_tp # None
            /\ r.current_price * 100 >= r.trail.trailing_tp

\* a position closed as TP_HIT at 98 after a new low below its activation
\* price
C33_Witness ==
  \E k \in 1..Len(trail_results) :
    /\ trail_results[k].action = "TP_HIT"
    /\ trail_results[k].trail.lowest_price
         < trail_results[k].trail.activation_price
    /\ trail_results[k].current_price = 98

\* C34: every position added to the trailing tracker is closed and removed
\* no later than max_tracking_minutes plus one check interval after it was
\* added, whatever the price reads return: no position that the loop has
\* checked at an age of max_tracking_minutes or more is still tracked
C34_ClosedByDeadline ==
  \A k \in 1..Len(active_trails) :
    active_trails[k].polled
      => active_trails[k].age < MaxTrackingMinutes * 60

\* ------------------------------------------------- claims on the restarts
\* C35: whenever at least one monitoring task is running for a symbol, the
\* symbol is in active_analyses
C35_FlagWhileTaskRuns ==
  \A sym \in Symbols : TasksOf(sym) # {} => sym \in active_analyses

\* C36: one new higher high causes at most one restart: while the observed
\* peak of a symbol and its last_notified_peak are unchanged the scans start
\* no further task, so no two running tasks of a symbol were started on the
\* same observed peak and the same last notified peak
C36_OneRestartPerHigherHigh ==
  \A i, j \in 1..Len(tasks) :
    (i # j /\ tasks[i].sym = tasks[j].sym)
      => ~(/\ tasks[i].at_peak = tasks[j].at_peak
           /\ tasks[i].at_lnp = tasks[j].at_lnp)

\* the notifications sent for a symbol, oldest first
AlertsOf(sym) == SelectSeq(alerts, LAMBDA a : a.sym = sym)

\* C37: a scan that, while a monitoring task of the symbol is running,
\* observes a peak at least 5 % above the peak of the last notification
\* starts a new task for the symbol, in a scan that stays silent and in a
\* scan that notifies the higher peak (the peak of the last notification is
\* then the one of the notification before)
C37_RestartOnHigherPeak ==
  [][/\ (/\ PumpAhead
         /\ TasksOf(Head(todo)) # {}
         /\ last_notified_peak[Head(todo)] # None
         /\ CurrentPeak(Stored(Head(todo))) * 100
              >= last_notified_peak[Head(todo)] * 105
         /\ alerts' = alerts
         /\ Len(Recent(Stored(Head(todo)), now, FastPumpTimeframe)) >= 2)
          => /\ next_id' = next_id + 1
             /\ tasks'[Len(tasks')].sym = Head(todo)
     /\ (/\ scan_pc = "alert" /\ scan_pc' = "loop"
         /\ TasksOf(local.symbol) # {}
         /\ Len(AlertsOf(local.symbol)) >= 2
         /\ local.current_peak * 100
              >= AlertsOf(local.symbol)[Len(AlertsOf(local.symbol)) - 1].peak
                   * 105)
          => /\ next_id' = next_id + 1
             /\ tasks'[Len(tasks')].sym = local.symbol]_vars

\* C38: after a signal has been broadcast for a symbol no further signal is
\* broadcast for it from the same pump: a later signal of the symbol has a
\* higher peak than every signal broadcast before it
C38_OneSignalPerPump ==
  \A i, j \in 1..Len(signals) :
    (i < j /\ signals[i].sym = signals[j].sym)
      => signals[j].peak > signals[i].peak

\* ------------------------------------------------- C39
\* the price of the tick is below peak - 0.7*(peak - start), or at most
\* start*1.01
BelowRetrace(tk) ==
  \/ tk.cur * 10 < tk.peak * 10 - (tk.peak - tk.start) * 7
  \/ tk.cur * 100 <= tk.start * 101

\* the step appends a signal of the task with this id
EmitsFor(id) ==
  \E k \in 1..Len(signals') : k > Len(signals) /\ signals'[k].id = id

\* C39: during slow-path monitoring, on a tick whose price is below
\* peak - 0.7*(peak - start) or at most start*1.01, the task ends as abandoned
\* and emits no signal on or after that tick
C39_NoSignalOnAbandonedTick ==
  [][\A i \in 1..Len(tasks) :
       (tasks[i].pc = "analyze" /\ BelowRetrace(tasks[i]))
       => /\ ~EmitsFor(tasks[i].id)
          /\ \A j \in 1..Len(tasks') :
               tasks'[j].id = tasks[i].id
                 => tasks'[j].pc \in {"analyze", "nosignal_send"}]_vars

\* C39 as the code has it: on such a tick the signal attempt comes first; when
\* it yields no signal the task leaves the monitoring loop on that tick (it
\* sends the "entry not found" notification unless muted, and ends) and emits
\* no signal on or after that tick
C39_AbandonedWhenNoSignal ==
  [][\A i \in 1..Len(tasks) :
       /\ (tasks[i].pc = "analyze" /\ BelowRetrace(tasks[i]))
          => /\ \A j \in 1..Len(tasks') :
                  tasks'[j].id = tasks[i].id
                    => /\ tasks'[j].pc \in {"analyze", "nosignal_send", "slow_send"}
                       /\ tasks'[j].pc = "slow_send" <=> EmitsFor(tasks[i].id)
             /\ (\A j \in 1..Len(tasks') : tasks'[j].id # tasks[i].id)
                  => ~EmitsFor(tasks[i].id)
       /\ tasks[i].pc = "nosignal_send"
          => /\ ~EmitsFor(tasks[i].id)
             /\ \A j \in 1..Len(tasks') :
                  tasks'[j].id = tasks[i].id => tasks'[j].pc = "nosignal_send"]_vars

\* a task whose tick found the price back at the start of the pump is sending
\* the "entry not found" notification
C39_Witness ==
  \E i \in 1..Len(tasks) :
    /\ tasks[i].pc = "nosignal_send"
    /\ BelowRetrace(tasks[i])
    /\ tasks[i].cur > 0

\* ------------------------------------------------- C40
\* the snapshot the scan is inserting for the symbol at the head of its loop
Inserted == Snap(tickers.ts, tickers.px[Head(todo)], tickers.vol)

\* the for loop of scan_market is at a symbol whose series is not empty
InsertsIntoSeries ==
  /\ scan_pc = "loop"
  /\ todo # <<>>
  /\ Len(price_snapshots[Head(todo)]) >= 1

\* C40: an insert into a non-empty series appends the new snapshot or
\* overwrites the head with it: after every insert that returns, the latest
\* stored snapshot of the symbol carries the inserted price and timestamp,
\* also when the series has length 1 and less than 1 s has passed
C40_LatestIsInserted ==
  [][(InsertsIntoSeries /\ scan_pc' # "crashed")
       => Last(price_snapshots'[Head(todo)]) = Inserted]_vars

\* C40 as the code has it: into a series of two or more snapshots the insert
\* appends or overwrites the head, so the latest stored snapshot is the
\* inserted one, unless the division by a last price of 0 raises, which leaves
\* the series as it was; into a series of one snapshot the insert appends when
\* more than 1 s has passed since it and otherwise drops the new snapshot,
\* leaving the series as it was
C40_LatestIsInsertedPastFirst ==
  [][InsertsIntoSeries =>
       LET sym == Head(todo)
           s == price_snapshots[sym]
       IN  IF scan_pc' = "crashed"
           THEN /\ Len(s) >= 2
                /\ Last(s).p = 0
                /\ price_snapshots'[sym] = s
           ELSE IF Len(s) >= 2 \/ tickers.ts - s[1].t > 1000
           THEN /\ Last(price_snapshots'[sym]) = Inserted
                /\ Len(price_snapshots'[sym]) <= Len(s) + 1
           ELSE price_snapshots'[sym] = s]_vars

\* a scan has gone over the symbol less than 1 s after its only snapshot, at
\* another price: the series still holds that snapshot alone
C40_Witness ==
  \E sym \in Symbols :
    /\ scan_pc = "loop"
    /\ todo = <<>>
    /\ scan_count >= 2
    /\ Len(price_snapshots[sym]) = 1
    /\ tickers.ts - price_snapshots[sym][1].t <= 1000
    /\ tickers.px[sym] # price_snapshots[sym][1].p
====
